---- MODULE Spec2Model ----
(***************************************************************************)
(* A2A research system: the in-process service actor (base_service.py),   *)
(* message signing, and the transport-level request authentication        *)
(* (servers/auth.py) in front of the aggregation server's endpoints.      *)
(***************************************************************************)
EXTENDS Integers, Sequences, FiniteSets, TLC

(***************************************************************************)
(* Bounds of the model.                                                    *)
(***************************************************************************)
\* envelopes accepted over a run (each gets a fresh arrival number)
MaxMsgs == 2

(***************************************************************************)
(* Values.                                                                 *)
(***************************************************************************)
\* the two in-process services that are modelled, by service_name
Services == {"web-search", "web-research-aggregation"}

\* secrets the two services are constructed with: one shared by both (as
\* demo.py and main.py do), or two different ones
SecretAssignments ==
    { [s \in Services |-> "k1"],
      [s \in Services |-> IF s = "web-search" THEN "k1" ELSE "k2"] }

\* shared secrets a service can be constructed with
Keys == {"k1", "k2"}

\* payloads: dicts with string keys; "type" may be missing
Payloads ==
    { [type |-> "perform_search", data |-> "q"],
      [type |-> "start_web_research_session", data |-> "q"],
      [data |-> "q"] }

\* datetime.utcnow().isoformat() values
Times == {"t0"}

\* message ids, names and timestamps for the signing checks
SignIds == {1, 2}

SignTimes == {"t0", "t1"}

(***************************************************************************)
(* Strings that can stand in an envelope's signature field.  A signature   *)
(* is None, or a str: the empty one, the base64 text of a digest, or some  *)
(* other text, which may hold non-ASCII characters.                        *)
(***************************************************************************)
NoDigest == [key |-> "", msg |-> <<>>]

NoneSig == [kind |-> "None", ascii |-> TRUE, digest |-> NoDigest]

EmptySig == [kind |-> "empty", ascii |-> TRUE, digest |-> NoDigest]

JunkSig == [kind |-> "junk", ascii |-> TRUE, digest |-> NoDigest]

NonAsciiSig == [kind |-> "junk", ascii |-> FALSE, digest |-> NoDigest]

\* Python truthiness of Optional[str]: None and "" are falsy
Truthy(sig) == sig.kind \notin {"None", "empty"}

\* keys of every dict that is serialised, in sorted order (sort_keys=True)
SortedKeys == <<"data", "id", "payload", "recipient", "sender", "timestamp", "type">>

\* json.dumps(d, sort_keys=True): the (key, value) pairs of d in key order
json_dumps(d) ==
    LET ks == SelectSeq(SortedKeys, LAMBDA k : k \in DOMAIN d)
    IN  [i \in 1..Len(ks) |-> <<ks[i], d[ks[i]]>>]

\* a digest that does not depend on the key (a plain hash of the message)
hmac_unkeyed(key, msg) == [key |-> "", msg |-> msg]

\* hmac.new(key, msg, sha256).digest(): collision-free in (key, msg)
hmac_sha256(key, msg) == [key |-> key, msg |-> msg]

\* base64.b64encode(digest).decode(): injective, always ASCII
b64encode(digest) == [kind |-> "b64", ascii |-> TRUE, digest |-> digest]

\* hmac.compare_digest on two str: raises TypeError when either holds a
\* non-ASCII character, otherwise tells whether they are equal
compare_digest(a, b) ==
    IF ~a.ascii \/ ~b.ascii THEN "TypeError"
    ELSE IF a = b THEN "True" ELSE "False"

Envelope(id, snd, rcp, pl, ts, sig) ==
    [id |-> id, sender |-> snd, recipient |-> rcp, payload |-> pl,
     timestamp |-> ts, signature |-> sig]

\* sign_message leaving the timestamp out of the signed data
sign_message_without_timestamp(secret, m) ==
    LET message_data == [id |-> m.id, sender |-> m.sender,
                         recipient |-> m.recipient,
                         payload |-> json_dumps(m.payload)]
    IN  b64encode(hmac_sha256(secret, json_dumps(message_data)))

\* A2AService.sign_message under a given secret
sign_message(secret, m) ==
    LET message_data == [id |-> m.id, sender |-> m.sender,
                         recipient |-> m.recipient,
                         payload |-> json_dumps(m.payload),
                         timestamp |-> m.timestamp]
    IN  b64encode(hmac_sha256(secret, json_dumps(message_data)))

\* A2AService.verify_message: "True", "False", or "TypeError" when the
\* comparison raises
verify_message(secret, m) ==
    IF ~Truthy(m.signature) THEN "False"
    ELSE compare_digest(sign_message(secret, m), m.signature)

\* A2AService.create_message
create_message(secret, id, snd, rcp, pl, ts) ==
    LET message == Envelope(id, snd, rcp, pl, ts, NoneSig)
    IN  [message EXCEPT !.signature = sign_message(secret, message)]

\* a lookup whose default is a type that has a handler
message_type_default_search(m) ==
    IF "type" \in DOMAIN m.payload THEN m.payload.type ELSE "perform_search"

\* message.payload.get('type', 'unknown')
message_type(m) ==
    IF "type" \in DOMAIN m.payload THEN m.payload.type ELSE "unknown"

(***************************************************************************)
(* State.                                                                  *)
(***************************************************************************)
VARIABLES
    \* the in-process services (base_service.py)
    shared_secret,     \* [Services -> Keys], fixed at construction
    message_handlers,  \* per service: message type -> handler
    message_queue,     \* per service: FIFO of [env, seq]
    loop,              \* per service: position of the process_messages task
    must_cancel,       \* per service: a task.cancel() not yet delivered
    current,           \* per service: arrival number of the message in the handler, 0 if none
    stopRequested,     \* per service: stop_services has cancelled the task
    dispatched,        \* per service: log of messages taken by the loop
    outcomes,          \* per service: log of how handler invocations ended
    callResult,        \* what the last send_message / receive_message call did
    arrivals,          \* envelopes accepted so far, over all services
    main,              \* where the program that starts and stops the services is
    \* one envelope under test: signed, altered, verified
    msg,               \* the envelope
    msgKey,            \* the secret it was created under
    msgPhase,          \* "new", "signed", "altered"
    msgVerified        \* results of the verify_message calls since the last change

svcVars == <<shared_secret, message_handlers, message_queue, loop, must_cancel,
             current, stopRequested, dispatched, outcomes, callResult, arrivals, main>>

signVars == <<msg, msgKey, msgPhase, msgVerified>>

VARIABLES
    \* the aggregation server behind the authentication dependency
    now,               \* the server's clock, int(time.time())
    research_sessions, \* session id -> session
    request,           \* the last request received
    response,          \* the answer to it
    \* the in-process aggregation service (aggregation_service.py)
    service_sessions,  \* WebResearchAggregationService.research_sessions
    handled            \* the last message a handler of it was given, and what it printed

authVars == <<now, research_sessions, request, response, service_sessions, handled>>

VARIABLES
    \* the service registry (servers/registry.py)
    services,          \* self.services: the dict's items, <<name, ServiceInfo>>, in insertion order
    clock,             \* datetime.utcnow(), in seconds
    hcPc,              \* position of the _health_check_loop task
    snapshot,          \* what is left of list(self.services.items()) in the running cycle
    cycleStart,        \* the time the running cycle woke up
    regResponse        \* the registry's answer to the last request

regVars == <<services, clock, hcPc, snapshot, cycleStart, regResponse>>

VARIABLES
    \* the distributed client and the interface that drives it
    client_services,   \* DistributedA2AClient.services: service name -> url
    discovered,        \* what the last discover_services call returned
    sent,              \* the requests issued to the services, in order
    lastCall,          \* how the last call of a step method of the client ended
    ui,                \* where the interface is: "init", "ready", "ended"
    pc,                \* the step perform_distributed_research is about to take
    wf_session_id,     \* its local session_id
    wf_search_results, \* its local search_results
    runResult          \* how the last workflow run ended

clientVars == <<client_services, discovered, sent, lastCall, ui, pc, wf_session_id,
                wf_search_results, runResult>>

vars == <<svcVars, signVars, authVars, regVars, clientVars>>

(***************************************************************************)
(* The in-process services: construction.                                  *)
(***************************************************************************)
\* handlers registered by the constructors of the two services
InitialHandlers ==
    [s \in Services |->
        IF s = "web-search"
        THEN [t \in {"perform_search", "filter_results", "get_cached_results"} |->
                 CASE t = "perform_search" -> "handle_perform_search"
                   [] t = "filter_results" -> "handle_filter_results"
                   [] t = "get_cached_results" -> "handle_get_cached_results"]
        ELSE [t \in {"start_web_research_session", "aggregate_web_results",
                     "generate_web_report"} |->
                 CASE t = "start_web_research_session" -> "handle_start_session"
                   [] t = "aggregate_web_results" -> "handle_aggregate_results"
                   [] t = "generate_web_report" -> "handle_generate_report"]]

\* whether a handler awaits something that can suspend it: only
\* handle_perform_search does (the search itself)
Suspends(h) == h = "handle_perform_search"

NoCall == [op |-> "none", result |-> "none"]

SvcInit ==
    /\ shared_secret \in SecretAssignments
    /\ message_handlers = InitialHandlers
    /\ message_queue = [s \in Services |-> <<>>]
    /\ loop = [s \in Services |-> "idle"]
    /\ must_cancel = [s \in Services |-> "none"]
    /\ current = [s \in Services |-> 0]
    /\ stopRequested = [s \in Services |-> FALSE]
    /\ dispatched = [s \in Services |-> <<>>]
    /\ outcomes = [s \in Services |-> <<>>]
    /\ callResult = NoCall
    /\ arrivals = 0
    /\ main = "init"

(***************************************************************************)
(* receive_message: verify, then enqueue or drop.                          *)
(***************************************************************************)
\* the envelopes that wait in some inbox: what a caller who keeps a copy of
\* an accepted envelope can hand to receive_message again
InboxEnvelopes ==
    UNION { {message_queue[s][i].env : i \in 1..Len(message_queue[s])} : s \in Services }

\* a receiver that drops an envelope it holds already
ReceiveVerdictUnseen(secret, m) ==
    LET v == verify_message(secret, m)
    IN  IF v = "TypeError" THEN "TypeError"
        ELSE IF v = "False" \/ m \in InboxEnvelopes THEN "dropped" ELSE "enqueued"

\* a receiver that raises to its caller when the signature is invalid
ReceiveVerdictRaising(secret, m) ==
    LET v == verify_message(secret, m)
    IN  IF v = "True" THEN "enqueued" ELSE "TypeError"

\* what the call does, from the outcome of verify_message
ReceiveVerdict(secret, m) ==
    LET v == verify_message(secret, m)
    IN  IF v = "TypeError" THEN "TypeError"
        ELSE IF v = "False" THEN "dropped" ELSE "enqueued"

\* a receiver that drops what is addressed to another service
receive_message_addressed(op, s, m) ==
    LET r == IF m.recipient # s THEN "dropped" ELSE ReceiveVerdict(shared_secret[s], m)
    IN  /\ callResult' = [op |-> op, result |-> r]
        /\ IF r = "enqueued"
           THEN /\ message_queue' = [message_queue EXCEPT
                       ![s] = Append(@, [env |-> m, seq |-> arrivals + 1])]
                /\ arrivals' = arrivals + 1
           ELSE UNCHANGED <<message_queue, arrivals>>

receive_message(op, s, m) ==
    LET r == ReceiveVerdict(shared_secret[s], m)
    IN  /\ callResult' = [op |-> op, result |-> r]
        /\ IF r = "enqueued"
           THEN /\ message_queue' = [message_queue EXCEPT
                       ![s] = Append(@, [env |-> m, seq |-> arrivals + 1])]
                /\ arrivals' = arrivals + 1
           ELSE UNCHANGED <<message_queue, arrivals>>

\* send_message: the sender creates and signs, the recipient receives
Send(a, b, pl, ts) ==
    /\ arrivals < MaxMsgs
    /\ receive_message("send_message", b,
                       create_message(shared_secret[a], arrivals + 1, a, b, pl, ts))
    /\ UNCHANGED <<main, shared_secret, message_handlers, loop, must_cancel, current,
                   stopRequested, dispatched, outcomes>>
    /\ UNCHANGED <<signVars, authVars, regVars, clientVars>>

\* signatures an arbitrary caller of receive_message can attach to a content
SignatureChoices(m) ==
    {NoneSig, EmptySig, JunkSig, NonAsciiSig}
        \cup {sign_message(k, m) : k \in Keys}
        \cup {sign_message(k, [m EXCEPT !.id = m.id + 1]) : k \in Keys}

\* envelopes an arbitrary caller can hand to receive_message
DeliverChoices ==
    UNION { { Envelope(arrivals + 1, "web-search", rcp, pl, ts, sig) :
                sig \in SignatureChoices(
                           Envelope(arrivals + 1, "web-search", rcp, pl, ts, NoneSig)) } :
            rcp \in Services, pl \in Payloads, ts \in Times }

\* receive_message called directly with any envelope
Deliver(s, m) ==
    /\ arrivals < MaxMsgs
    /\ receive_message("receive_message", s, m)
    /\ UNCHANGED <<main, shared_secret, message_handlers, loop, must_cancel, current,
                   stopRequested, dispatched, outcomes>>
    /\ UNCHANGED <<signVars, authVars, regVars, clientVars>>

(***************************************************************************)
(* process_messages: the dispatch loop, one asyncio task per service.      *)
(***************************************************************************)
\* a get that leaves the item in the queue
queue_get_peek(q) == [item |-> Head(q), rest |-> q]

\* a queue that hands out the newest item first
queue_get_lifo(q) == [item |-> q[Len(q)], rest |-> SubSeq(q, 1, Len(q) - 1)]

\* asyncio.Queue.get: the oldest item, and the queue without it
queue_get(q) == [item |-> Head(q), rest |-> Tail(q)]

\* ways a handler invocation can go when it is called
HandlerStarts(h) ==
    {"returned", "raised"} \cup (IF Suspends(h) THEN {"suspended"} ELSE {})

\* a loop without "except Exception": what the handler raises ends the task
AfterHandlerUncaught(o) == IF o = "raised" THEN "stopped" ELSE "get"

\* a loop that returns after the first handler it awaited
AfterHandlerStops(o) == "stopped"

\* where the task is after a handler ended: "except Exception" catches what
\* the handler raised, and the while loop goes on
AfterHandler(o) == "get"

\* a loop that starts the handler as a task of its own and goes on
SpawnHandler == "get"

\* await self.message_handlers[message_type](message): while the handler is
\* suspended the loop's task is inside it
AwaitHandler == "handler"

\* the loop takes the next message and dispatches it on its type
Dispatch(s) ==
    LET got  == queue_get(message_queue[s])
        item == got.item
        t    == message_type(item.env)
    IN  /\ message_queue' = [message_queue EXCEPT ![s] = got.rest]
        /\ IF t \in DOMAIN message_handlers[s]
           THEN LET h == message_handlers[s][t]
                IN  /\ dispatched' = [dispatched EXCEPT
                           ![s] = Append(@, [seq |-> item.seq, handler |-> h])]
                    /\ \E o \in HandlerStarts(h) :
                          IF o = "suspended"
                          THEN /\ loop' = [loop EXCEPT ![s] = AwaitHandler]
                               /\ current' = [current EXCEPT ![s] = item.seq]
                               /\ UNCHANGED outcomes
                          ELSE /\ loop' = [loop EXCEPT ![s] = AfterHandler(o)]
                               /\ outcomes' = [outcomes EXCEPT
                                      ![s] = Append(@, [seq |-> item.seq, outcome |-> o])]
                               /\ UNCHANGED current
           ELSE /\ dispatched' = [dispatched EXCEPT
                       ![s] = Append(@, [seq |-> item.seq, handler |-> "none"])]
                /\ loop' = [loop EXCEPT ![s] = "get"]
                /\ UNCHANGED <<current, outcomes>>

\* start_services / run_web_research_demo: create the tasks, then sleep(0.1)
StartServices ==
    /\ main = "init"
    /\ loop' = [s \in Services |-> "get"]
    /\ main' = "start_sleep"
    /\ UNCHANGED <<shared_secret, message_handlers, message_queue, must_cancel,
                   current, stopRequested, dispatched, outcomes, callResult, arrivals>>
    /\ UNCHANGED <<signVars, authVars, regVars, clientVars>>

\* whether the loop's task waits for something: an empty queue, or what its
\* handler awaits
Blocked(s) ==
    \/ loop[s] = "handler"
    \/ loop[s] = "get" /\ message_queue[s] = <<>>

\* the sleep(0.1) of start_services ends: the event loop has by then run
\* every task that could run
ServicesStarted ==
    /\ main = "start_sleep"
    /\ \A s \in Services : Blocked(s)
    /\ main' = "running"
    /\ UNCHANGED <<shared_secret, message_handlers, message_queue, loop, must_cancel,
                   current, stopRequested, dispatched, outcomes, callResult, arrivals>>
    /\ UNCHANGED <<signVars, authVars, regVars, clientVars>>

\* stop_services: task.cancel() on every task.  A cancel() requested while
\* the pending queue.get() already has an item is marked "cancel_got".
StopServices ==
    /\ main = "running"
    /\ \E s \in Services : loop[s] \in {"get", "handler"}
    /\ must_cancel' = [s \in Services |->
          IF loop[s] \notin {"get", "handler"} \/ must_cancel[s] # "none"
          THEN must_cancel[s]
          ELSE IF loop[s] = "get" /\ message_queue[s] # <<>>
               THEN "cancel_got" ELSE "cancel"]
    /\ stopRequested' = [s \in Services |->
          stopRequested[s] \/ loop[s] \in {"get", "handler"}]
    /\ UNCHANGED <<main, shared_secret, message_handlers, message_queue, loop, current,
                   dispatched, outcomes, callResult, arrivals>>
    /\ UNCHANGED <<signVars, authVars, regVars, clientVars>>

\* wait_for(queue.get()) returns a message
LoopGet(s) ==
    /\ loop[s] = "get"
    /\ must_cancel[s] = "none"
    /\ message_queue[s] # <<>>
    /\ Dispatch(s)
    /\ UNCHANGED <<main, shared_secret, message_handlers, must_cancel, stopRequested,
                   callResult, arrivals>>
    /\ UNCHANGED <<signVars, authVars, regVars, clientVars>>

\* wait_for times out on an empty queue: except asyncio.TimeoutError: continue
PollTimeout(s) ==
    /\ loop[s] = "get"
    /\ must_cancel[s] = "none"
    /\ message_queue[s] = <<>>
    /\ UNCHANGED vars

\* a suspended handler resumes and ends, by returning or by raising
HandlerEnds(s, o) ==
    /\ loop[s] = "handler"
    /\ must_cancel[s] = "none"
    /\ outcomes' = [outcomes EXCEPT ![s] = Append(@, [seq |-> current[s], outcome |-> o])]
    /\ loop' = [loop EXCEPT ![s] = AfterHandler(o)]
    /\ current' = [current EXCEPT ![s] = 0]
    /\ UNCHANGED <<main, shared_secret, message_handlers, message_queue, must_cancel,
                   stopRequested, dispatched, callResult, arrivals>>
    /\ UNCHANGED <<signVars, authVars, regVars, clientVars>>

HandlerReturn(s) == HandlerEnds(s, "returned")

HandlerRaise(s) == HandlerEnds(s, "raised")

\* CancelledError is thrown into the task at its await; it is a BaseException,
\* so neither except clause of process_messages catches it
CancelTask(s) ==
    /\ must_cancel[s] # "none"
    /\ loop[s] \in {"get", "handler"}
    /\ loop' = [loop EXCEPT ![s] = "stopped"]
    /\ must_cancel' = [must_cancel EXCEPT ![s] = "none"]
    /\ current' = [current EXCEPT ![s] = 0]
    /\ outcomes' = [outcomes EXCEPT ![s] =
          IF loop[s] = "handler"
          THEN Append(@, [seq |-> current[s], outcome |-> "cancelled"])
          ELSE @]
    /\ UNCHANGED <<main, shared_secret, message_handlers, message_queue, stopRequested,
                   dispatched, callResult, arrivals>>
    /\ UNCHANGED <<signVars, authVars, regVars, clientVars>>

\* asyncio.wait_for before Python 3.12: when the inner queue.get() is done by
\* the time the CancelledError arrives, wait_for returns its result and the
\* cancellation is lost
WaitForSwallowsCancel(s) ==
    /\ must_cancel[s] = "cancel_got"
    /\ loop[s] = "get"
    /\ must_cancel' = [must_cancel EXCEPT ![s] = "none"]
    /\ Dispatch(s)
    /\ UNCHANGED <<main, shared_secret, message_handlers, stopRequested, callResult, arrivals>>
    /\ UNCHANGED <<signVars, authVars, regVars, clientVars>>

\* a table that keeps the handler a type already has
handlers_setdefault(table, message_type_, handler) ==
    IF message_type_ \in DOMAIN table THEN table
    ELSE [t \in DOMAIN table \cup {message_type_} |->
             IF t = message_type_ THEN handler ELSE table[t]]

\* self.message_handlers[message_type] = handler
handlers_set(table, message_type_, handler) ==
    [t \in DOMAIN table \cup {message_type_} |->
        IF t = message_type_ THEN handler ELSE table[t]]

\* A2AService.register_handler, called on a constructed service
register_handler(s, message_type_, handler) ==
    /\ message_handlers' = [message_handlers EXCEPT
          ![s] = handlers_set(@, message_type_, handler)]
    /\ callResult' = [op |-> "register_handler", result |-> handler]
    /\ UNCHANGED <<main, shared_secret, message_queue, loop, must_cancel, current,
                   stopRequested, dispatched, outcomes, arrivals>>
    /\ UNCHANGED <<signVars, authVars, regVars, clientVars>>

\* the services with handlers registered while messages are in flight
HandlersNext ==
    \/ \E t \in {"perform_search", "get_cached_results"},
          h \in {"handle_filter_results", "handle_get_cached_results"} :
          register_handler("web-search", t, h)
    \/ \E a \in Services, pl \in Payloads, ts \in Times : Send(a, "web-search", pl, ts)
    \/ StartServices
    \/ ServicesStarted
    \/ \E s \in Services : LoopGet(s)
    \/ \E s \in Services : PollTimeout(s)
    \/ \E s \in Services : HandlerReturn(s)
    \/ \E s \in Services : HandlerRaise(s)

SvcNext ==
    \/ \E a, b \in Services, pl \in Payloads, ts \in Times : Send(a, b, pl, ts)
    \/ \E s \in Services : \E m \in DeliverChoices : Deliver(s, m)
    \/ StartServices
    \/ ServicesStarted
    \/ StopServices
    \/ \E s \in Services : LoopGet(s)
    \/ \E s \in Services : PollTimeout(s)
    \/ \E s \in Services : HandlerReturn(s)
    \/ \E s \in Services : HandlerRaise(s)
    \/ \E s \in Services : CancelTask(s)
    \/ \E s \in Services : WaitForSwallowsCancel(s)

(***************************************************************************)
(* One envelope, created by create_message, then verified, possibly after  *)
(* one of its fields was changed.                                          *)
(***************************************************************************)
\* verify_message calls recorded per envelope version
MaxVerify == 2

NoEnvelope == Envelope(0, "", "", [data |-> "q"], "", NoneSig)

SignIdle ==
    /\ msg = NoEnvelope
    /\ msgKey = ""
    /\ msgPhase = "new"
    /\ msgVerified = <<>>

\* create_message(recipient, payload) by service snd holding secret k
CreateMessage(k, id, snd, rcp, pl, ts) ==
    /\ msgPhase = "new"
    /\ msg' = create_message(k, id, snd, rcp, pl, ts)
    /\ msgKey' = k
    /\ msgPhase' = "signed"
    /\ msgVerified' = <<>>
    /\ UNCHANGED <<svcVars, authVars, regVars, clientVars>>

\* verify_message(message) under the secret the envelope was created with
VerifyMessage ==
    /\ msgPhase \in {"signed", "altered"}
    /\ Len(msgVerified) < MaxVerify
    /\ msgVerified' = Append(msgVerified, verify_message(msgKey, msg))
    /\ UNCHANGED <<msg, msgKey, msgPhase, svcVars, authVars, regVars, clientVars>>

\* values a signed field can be changed to
FieldValues(f) ==
    CASE f = "id" -> SignIds
      [] f = "sender" -> Services
      [] f = "recipient" -> Services
      [] f = "payload" -> Payloads
      [] f = "timestamp" -> SignTimes

SignedFields == {"id", "sender", "recipient", "payload", "timestamp"}

\* one of the signed fields of the envelope is changed after signing
AlterField(f, v) ==
    /\ msgPhase = "signed"
    /\ v # msg[f]
    /\ msg' = [msg EXCEPT ![f] = v]
    /\ msgPhase' = "altered"
    /\ msgVerified' = <<>>
    /\ UNCHANGED <<msgKey, svcVars, authVars, regVars, clientVars>>

SignNext ==
    \/ \E k \in Keys, id \in SignIds, snd, rcp \in Services, pl \in Payloads,
          ts \in SignTimes : CreateMessage(k, id, snd, rcp, pl, ts)
    \/ VerifyMessage
    \/ \E f \in SignedFields : \E v \in FieldValues(f) : AlterField(f, v)

(***************************************************************************)
(* Transport-level authentication (servers/auth.py).  Header texts are     *)
(* sequences of characters; a header that was not sent is None.            *)
(***************************************************************************)
Digits == <<"0", "1", "2", "3", "4", "5", "6", "7", "8", "9">>

IsDigit(c) == \E i \in 1..10 : Digits[i] = c

DigitVal(c) == (CHOOSE i \in 1..10 : Digits[i] = c) - 1

RECURSIVE IntToStr(_)
\* str(n) for n >= 0
IntToStr(n) ==
    IF n < 10 THEN <<Digits[n + 1]>>
    ELSE IntToStr(n \div 10) \o <<Digits[(n % 10) + 1]>>

RECURSIVE DigitsValue(_)
DigitsValue(t) ==
    IF t = <<>> THEN 0
    ELSE 10 * DigitsValue(SubSeq(t, 1, Len(t) - 1)) + DigitVal(t[Len(t)])

\* int(text): the value, or ValueError for text that is no decimal number
ParseInt(t) ==
    IF t # <<>> /\ \A i \in 1..Len(t) : IsDigit(t[i])
    THEN [ok |-> TRUE, val |-> DigitsValue(t)]
    ELSE [ok |-> FALSE, val |-> 0]

Abs(x) == IF x < 0 THEN -x ELSE x

\* Optional[str] header values
NoneHdr == [present |-> FALSE, text |-> <<>>]

Hdr(t) == [present |-> TRUE, text |-> t]

\* truthiness of an Optional[str] header, as all([...]) takes it
HdrTruthy(h) == h.present /\ h.text # <<>>

\* A2AAuth.create_signature: HMAC over f"{service_name}:{timestamp}:{body}"
create_signature(secret, service_name, timestamp, body) ==
    LET message == service_name \o <<":">> \o timestamp \o <<":">> \o body
    IN  b64encode(hmac_sha256(secret, message))

\* A2AAuth.verify_signature: "True", "False", or "TypeError"
verify_signature(secret, service_name, timestamp, signature, body) ==
    compare_digest(create_signature(secret, service_name, timestamp, body), signature)

\* A2AAuth.create_auth_headers at clock reading time
create_auth_headers(secret, service_name, body, time) ==
    LET timestamp == IntToStr(time)
    IN  [name |-> Hdr(service_name), ts |-> Hdr(timestamp),
         sig |-> create_signature(secret, service_name, timestamp, body)]

\* the freshness window of verify_request, in seconds
FreshnessWindow == 300

\* a freshness check that forgets abs(): only old timestamps are stale
TimestampFreshNoAbs(current_time, request_time) ==
    ~(current_time - request_time > FreshnessWindow)

\* not (abs(current_time - request_time) > 300)
TimestampFresh(current_time, request_time) ==
    ~(Abs(current_time - request_time) > FreshnessWindow)

\* the body verify_request hands to verify_signature: always the empty one
VerifiedBody(body) == <<>>

Reject(status, detail) == [status |-> status, detail |-> detail, service |-> <<>>]

\* verify_request: the caller's service name with status 200, or the error
\* that is raised.  An exception that is no HTTPException answers 500.
verify_request(secret, current_time, h, body) ==
    IF ~(HdrTruthy(h.name) /\ HdrTruthy(h.ts) /\ Truthy(h.sig))
    THEN Reject(401, "Missing authentication headers")
    ELSE LET request_time == ParseInt(h.ts.text)
         IN  IF ~request_time.ok
             THEN Reject(401, "Invalid timestamp")
             ELSE IF ~TimestampFresh(current_time, request_time.val)
             THEN Reject(401, "Request timestamp too old")
             ELSE LET v == verify_signature(secret, h.name.text, h.ts.text, h.sig,
                                            VerifiedBody(body))
                  IN  IF v = "TypeError"
                      THEN Reject(500, "Internal Server Error")
                      ELSE IF v = "False"
                      THEN Reject(401, "Invalid signature")
                      ELSE [status |-> 200, detail |-> "", service |-> h.name.text]

(***************************************************************************)
(* The aggregation server (servers/aggregation_server.py): every route     *)
(* below depends on verify_request, and its body runs only when the        *)
(* dependency returned.                                                    *)
(***************************************************************************)
\* the secret the server and its clients are started with
ServerSecret == "k1"

\* the name the distributed client sends
ClientName == <<"research-client">>

\* the server's clock while the requests below arrive
Now0 == 1000

\* results accumulated per session
MaxSources == 2

\* session ids a client can ask for, and ids uuid4 can produce
ClientSids == {"s1"}

FreshSids == {"u1"}

ResultLists == {<<>>, <<"r1">>}

\* offsets of a request's timestamp from the server's clock
Skews == {-(FreshnessWindow + 1), -FreshnessWindow, 0, FreshnessWindow, FreshnessWindow + 1}

\* header triples a request can carry, for a request with the given body
HeaderChoices(body) ==
    LET good == create_auth_headers(ServerSecret, ClientName, <<>>, now)
        late == create_auth_headers(ServerSecret, ClientName, <<>>, now - (FreshnessWindow + 1))
        junk == IntToStr(now) \o <<"x">>
    IN  { create_auth_headers(ServerSecret, ClientName, <<>>, now + d) : d \in Skews }
        \cup { create_auth_headers(k, ClientName, <<>>, now) : k \in Keys }
        \cup { create_auth_headers(ServerSecret, ClientName, body, now) }
        \cup { [good EXCEPT !.name = n] : n \in {NoneHdr, Hdr(<<>>)} }
        \cup { [good EXCEPT !.ts = t] : t \in {NoneHdr, Hdr(<<>>)} }
        \cup { [good EXCEPT !.ts = Hdr(junk),
                            !.sig = create_signature(ServerSecret, ClientName, junk, <<>>)] }
        \cup { [good EXCEPT !.sig = g] : g \in {NoneSig, EmptySig, JunkSig, NonAsciiSig} }
        \cup { [late EXCEPT !.sig = g] : g \in {JunkSig, NonAsciiSig} }

NoRequest == [endpoint |-> "none", headers |-> [name |-> NoneHdr, ts |-> NoneHdr, sig |-> NoneSig],
              body |-> <<>>, at |-> 0]

NoResponse == [status |-> 0, detail |-> "", ran |-> FALSE, session_id |-> "",
               report |-> <<>>]

AuthInit ==
    /\ now = Now0
    /\ research_sessions = [sid \in {} |-> 0]
    /\ request = NoRequest
    /\ response = NoResponse
    /\ service_sessions = [sid \in {} |-> 0]
    /\ handled = [message_type |-> "none", session_id |-> "", printed |-> ""]

\* Depends(self.verify_auth): the dependency runs before the route's body
Authenticate(h, body) == verify_request(ServerSecret, now, h, body)

\* a request reaches a route
Receive(endpoint, h, body) ==
    /\ request' = [endpoint |-> endpoint, headers |-> h, body |-> body, at |-> now]
    /\ UNCHANGED <<now, service_sessions, handled, svcVars, signVars, regVars, clientVars>>

\* the dependency raised: the error is the answer and the route's body does
\* not run
Refuse(auth) ==
    /\ response' = [status |-> auth.status, detail |-> auth.detail,
                    ran |-> FALSE, session_id |-> "", report |-> <<>>]
    /\ UNCHANGED research_sessions

\* POST /session
start_session(h, topic, session_id) ==
    LET body == <<"topic", topic, "session_id", session_id>>
        Run(authenticated_service) ==
            \E sid \in (IF session_id # "" THEN {session_id}
                        ELSE FreshSids \ DOMAIN research_sessions) :
               /\ research_sessions' =
                     [x \in DOMAIN research_sessions \cup {sid} |->
                        IF x = sid
                        THEN [id |-> sid, topic |-> topic, search_results |-> <<>>,
                              sources_analyzed |-> 0]
                        ELSE research_sessions[x]]
               /\ response' = [status |-> 200, detail |-> "", ran |-> TRUE, session_id |-> sid,
                               report |-> <<>>]
    IN  /\ Receive("session", h, body)
        /\ IF Authenticate(h, body).status = 200
           THEN Run(Authenticate(h, body).service)
           ELSE Refuse(Authenticate(h, body))

\* POST /aggregate
aggregate_results(h, session_id, results) ==
    LET body == <<"session_id", session_id, "results">> \o results
        Run(authenticated_service) ==
            IF session_id \notin DOMAIN research_sessions
            THEN /\ response' = [status |-> 404, detail |-> "Session not found",
                                 ran |-> TRUE, session_id |-> session_id,
                                 report |-> <<>>]
                 /\ UNCHANGED research_sessions
            ELSE /\ Len(research_sessions[session_id].search_results) + Len(results)
                       <= MaxSources
                 /\ research_sessions' = [research_sessions EXCEPT
                       ![session_id].search_results = @ \o results,
                       ![session_id].sources_analyzed = @ + Len(results)]
                 /\ response' = [status |-> 200, detail |-> "aggregated", ran |-> TRUE,
                                 session_id |-> session_id, report |-> <<>>]
    IN  /\ Receive("aggregate", h, body)
        /\ IF Authenticate(h, body).status = 200
           THEN Run(Authenticate(h, body).service)
           ELSE Refuse(Authenticate(h, body))

\* what the call of the language model can give: no usable answer (the call
\* raised, answered non-200, or its text held no JSON), or the JSON object
\* parsed from its text, whose keys the model chooses
LlmOutcomes ==
    { [k \in {} |-> 0],
      [k \in {"executive_summary"} |-> 1],
      [k \in {"executive_summary", "total_sources"} |-> IF k = "total_sources" THEN 0 ELSE 1],
      [k \in {"executive_summary", "session_id"} |-> 1] }

\* {**a, **b}: on a key of both, the value of b
dict_merge(a, b) ==
    [k \in DOMAIN a \cup DOMAIN b |-> IF k \in DOMAIN b THEN b[k] ELSE a[k]]

\* _generate_web_research_report: the statistics of the session, merged with
\* what the language model returned; the fallback report without it
generate_web_research_report(session, llm_report) ==
    LET stats == [k \in {"session_id", "topic", "total_sources"} |->
                    CASE k = "session_id" -> <<"id", session.id>>
                      [] k = "topic" -> <<"topic", session.topic>>
                      [] k = "total_sources" -> <<"n", Len(session.search_results)>>]
        sections == [k \in DOMAIN llm_report |-> <<"llm", llm_report[k]>>]
    IN  IF DOMAIN llm_report = {}
        THEN dict_merge(stats, [k \in {"executive_summary"} |-> <<"basic", 0>>])
        ELSE dict_merge(stats, sections)

\* POST /report
generate_report(h, session_id) ==
    LET body == <<"session_id", session_id>>
        Run(authenticated_service) ==
            /\ IF session_id \notin DOMAIN research_sessions
               THEN response' =
                       [status |-> 404, detail |-> "Session not found", ran |-> TRUE,
                        session_id |-> session_id, report |-> <<>>]
               ELSE \E llm_report \in LlmOutcomes :
                       response' =
                          [status |-> 200, detail |-> "report", ran |-> TRUE,
                           session_id |-> research_sessions[session_id].id,
                           report |-> generate_web_research_report(
                                         research_sessions[session_id], llm_report)]
            /\ UNCHANGED research_sessions
    IN  /\ Receive("report", h, body)
        /\ IF Authenticate(h, body).status = 200
           THEN Run(Authenticate(h, body).service)
           ELSE Refuse(Authenticate(h, body))

AllSids == ClientSids \cup FreshSids

AuthNext ==
    \/ \E sid \in ClientSids \cup {""} :
          \E h \in HeaderChoices(<<"topic", "t", "session_id", sid>>) :
             start_session(h, "t", sid)
    \/ \E sid \in AllSids, rs \in ResultLists :
          \E h \in HeaderChoices(<<"session_id", sid, "results">> \o rs) :
             aggregate_results(h, sid, rs)
    \/ \E sid \in AllSids :
          \E h \in HeaderChoices(<<"session_id", sid>>) : generate_report(h, sid)

(***************************************************************************)
(* The in-process aggregation service (aggregation_service.py): its three  *)
(* handlers, given the messages the dispatch loop hands them.              *)
(***************************************************************************)
\* a handler that starts the session it does not find
extend_or_create(sessions, session_id, results) ==
    [x \in DOMAIN sessions \cup {session_id} |->
        IF x = session_id
        THEN [id |-> session_id, topic |-> "Unknown", search_results |-> results,
              sources_analyzed |-> Len(results)]
        ELSE sessions[x]]

\* if session_id in self.research_sessions: extend the session's
\* search_results and add to its sources_analyzed; otherwise nothing
extend_session(sessions, session_id, results) ==
    IF session_id \in DOMAIN sessions
    THEN [sessions EXCEPT ![session_id].search_results = @ \o results,
                          ![session_id].sources_analyzed = @ + Len(results)]
    ELSE sessions

\* a handler ran: what it printed, and what it left alone
Handled(message_type_, session_id, printed) ==
    /\ handled' = [message_type |-> message_type_, session_id |-> session_id,
                   printed |-> printed]
    /\ UNCHANGED <<now, research_sessions, request, response>>
    /\ UNCHANGED <<svcVars, signVars, regVars, clientVars>>

\* handle_start_session: the id of the payload's session, or a new uuid
handle_start_session(topic, session_id) ==
    \E sid \in (IF session_id # "" THEN {session_id}
                ELSE FreshSids \ DOMAIN service_sessions) :
       /\ service_sessions' =
             [x \in DOMAIN service_sessions \cup {sid} |->
                IF x = sid
                THEN [id |-> sid, topic |-> topic, search_results |-> <<>>,
                      sources_analyzed |-> 0]
                ELSE service_sessions[x]]
       /\ Handled("start_web_research_session", sid, "Started web research session")

\* handle_aggregate_results; a payload without session_id gives None, which
\* is no key of the dict ("" here)
handle_aggregate_results(session_id, results) ==
    /\ session_id \in DOMAIN service_sessions =>
          Len(service_sessions[session_id].search_results) + Len(results) <= MaxSources
    /\ service_sessions' = extend_session(service_sessions, session_id, results)
    /\ Handled("aggregate_web_results", session_id,
               IF session_id \in DOMAIN service_sessions
               THEN "Aggregated web results" ELSE "")

\* handle_generate_report: the report is computed and printed about, and
\* not sent anywhere
handle_generate_report(session_id) ==
    /\ UNCHANGED service_sessions
    /\ Handled("generate_web_report", session_id,
               IF session_id \in DOMAIN service_sessions
               THEN "Generated web research report" ELSE "")

\* the header triple the distributed client sends with a request:
\* self.auth.create_auth_headers(self.client_name, "")
AuthenticHeaders(body) ==
    { create_auth_headers(ServerSecret, ClientName, <<>>, now) }

\* both aggregation components: the server given authenticated requests,
\* the service given the messages of its three types
AggregationNext ==
    \/ \E sid \in ClientSids \cup {""} :
          \E h \in AuthenticHeaders(<<"topic", "t", "session_id", sid>>) :
             start_session(h, "t", sid)
    \/ \E sid \in AllSids, rs \in ResultLists :
          \E h \in AuthenticHeaders(<<"session_id", sid, "results">> \o rs) :
             aggregate_results(h, sid, rs)
    \/ \E sid \in AllSids :
          \E h \in AuthenticHeaders(<<"session_id", sid>>) : generate_report(h, sid)
    \/ \E sid \in ClientSids \cup {""} : handle_start_session("t", sid)
    \/ \E sid \in AllSids \cup {""}, rs \in ResultLists :
          handle_aggregate_results(sid, rs)
    \/ \E sid \in AllSids \cup {""} : handle_generate_report(sid)

(***************************************************************************)
(* Replays: an envelope or a header triple that was accepted once is       *)
(* presented again.                                                        *)
(***************************************************************************)
\* the header triple a client made at time Now0 and a caller kept
KeptHeaders == create_auth_headers(ServerSecret, ClientName, <<>>, Now0)

\* seconds pass between two requests: int(time.time()) of verify_request
\* reads a later clock
Tick ==
    /\ now + FreshnessWindow \div 2 <= Now0 + FreshnessWindow + FreshnessWindow \div 2
    /\ now' = now + FreshnessWindow \div 2
    /\ UNCHANGED <<research_sessions, request, response, service_sessions, handled>>
    /\ UNCHANGED <<svcVars, signVars, regVars, clientVars>>

\* the services given envelopes they were given before, and the server
\* given the kept header triple at later times
ReplayNext ==
    \/ \E a \in Services, pl \in Payloads, ts \in Times : Send(a, "web-search", pl, ts)
    \/ \E m \in InboxEnvelopes : Deliver("web-search", m)
    \/ StartServices
    \/ ServicesStarted
    \/ \E s \in Services : LoopGet(s)
    \/ \E s \in Services : PollTimeout(s)
    \/ \E s \in Services : HandlerReturn(s)
    \/ \E s \in Services : HandlerRaise(s)
    \/ Tick
    \/ start_session(KeptHeaders, "t", "s1")

(***************************************************************************)
(* The service registry (servers/registry.py): the routes, and the         *)
(* background health-check loop.  A ServiceInfo is an object: the loop     *)
(* keeps references to the objects its cycle started with, a heartbeat     *)
(* changes an object in place, and register_service puts a new object      *)
(* under the name.                                                         *)
(***************************************************************************)
\* the last second of a run
MaxClock == 65

\* self.heartbeat_timeout
heartbeat_timeout == 60

\* asyncio.sleep(30) between two cycles
HealthCheckInterval == 30

\* client.get(health_url, timeout=5.0)
ProbeTimeoutSeconds == 5

\* service names requests are made for
RegNames == {"search", "aggregation"}

\* ServiceRegistration bodies of POST /register that only give a name, a
\* host and a port
DefaultRegistrations ==
    { [service_name |-> n, host |-> "h1", port |-> 8001,
       health_endpoint |-> "/health", metadata |-> "none"] : n \in RegNames }

\* ServiceRegistration bodies of POST /register
Registrations ==
    DefaultRegistrations \cup
    { [service_name |-> n, host |-> "h2", port |-> 8002,
       health_endpoint |-> "/healthz", metadata |-> "v2"] : n \in RegNames }

\* datetime.isoformat() of a time, and datetime.fromisoformat() of such a text
isoformat(t) == IntToStr(t)

fromisoformat(text) == ParseInt(text).val

\* f"http://{registration.host}:{registration.port}"
service_url(host, port) == <<"http://", host, ":", port>>

\* the keys of a dict, in order
DictKeys(items) == [i \in 1..Len(items) |-> items[i][1]]

\* the keys of the dict
RegisteredNames == {services[i][1] : i \in 1..Len(services)}

\* the position of a key that is present
IndexOf(items, name) == CHOOSE i \in 1..Len(items) : items[i][1] = name

\* self.services[name]: the ServiceInfo registered under a name
Record(name) == services[IndexOf(services, name)][2]

\* a dict that gets a second item when a key is assigned again
dict_set_append(items, name, info) == Append(items, <<name, info>>)

\* self.services[name] = service_info: a present key keeps its position
dict_set(items, name, info) ==
    IF \E i \in 1..Len(items) : items[i][1] = name
    THEN [items EXCEPT ![IndexOf(items, name)] = <<name, info>>]
    ELSE Append(items, <<name, info>>)

\* a delete that takes the oldest item, whatever its key
dict_del_first(items, name) == Tail(items)

\* del self.services[name]
dict_del(items, name) == SelectSeq(items, LAMBDA it : it[1] # name)

NoInfo == [service_name |-> ""]

\* An entry of the cycle's list refers to a ServiceInfo object.  While that
\* object is the one in the dict the entry is "attached"; once the dict has
\* another object under the name, or none, the entry holds the old object.
Entry(name) == [name |-> name, attached |-> TRUE, obj |-> NoInfo]

\* list(self.services.items())
items_list(items) == [i \in 1..Len(items) |-> Entry(items[i][1])]

\* the object under a name leaves the dict: the cycle keeps it
Detach(snap, name) ==
    [i \in 1..Len(snap) |->
        IF snap[i].name = name /\ snap[i].attached
        THEN [name |-> name, attached |-> FALSE, obj |-> Record(name)]
        ELSE snap[i]]

\* a registry that was started at time t: the loop's task is in its first sleep
RegInitAt(t) ==
    /\ services = <<>>
    /\ clock = t
    /\ hcPc = "sleep"
    /\ snapshot = <<>>
    /\ cycleStart = t
    /\ regResponse = [op |-> "none", name |-> "", status |-> 0, detail |-> "",
                      url |-> <<>>, records |-> <<>>]

RegInit == RegInitAt(0)

\* the event loop serves a request only while the health-check task is
\* suspended (in its sleep or in a probe)
LoopSuspended == hcPc \in {"sleep", "probe"}

\* the answer to a request: its status code and, of its JSON body, the
\* "status" or "detail" text, the "url", and the ServiceInfo records
Answer(op, name, status, detail, url, records) ==
    regResponse' = [op |-> op, name |-> name, status |-> status, detail |-> detail,
                    url |-> url, records |-> records]

NotFound(op, name) ==
    /\ Answer(op, name, 404, "Service not found", <<>>, <<>>)
    /\ UNCHANGED <<services, snapshot>>

\* a registration that trusts the caller to be up
ServiceInfoHealthy(registration, t) ==
    [service_name |-> registration.service_name,
     host |-> registration.host,
     port |-> registration.port,
     health_endpoint |-> registration.health_endpoint,
     url |-> service_url(registration.host, registration.port),
     status |-> "healthy",
     registered_at |-> isoformat(t),
     last_heartbeat |-> isoformat(t),
     metadata |-> registration.metadata]

\* ServiceInfo(...) as register_service builds it at time t
ServiceInfo(registration, t) ==
    [service_name |-> registration.service_name,
     host |-> registration.host,
     port |-> registration.port,
     health_endpoint |-> registration.health_endpoint,
     url |-> service_url(registration.host, registration.port),
     status |-> "unknown",
     registered_at |-> isoformat(t),
     last_heartbeat |-> isoformat(t),
     metadata |-> registration.metadata]

\* POST /register
register_service(registration) ==
    LET service_info == ServiceInfo(registration, clock)
    IN  /\ LoopSuspended
        /\ services' = dict_set(services, registration.service_name, service_info)
        /\ snapshot' = Detach(snapshot, registration.service_name)
        /\ Answer("register", registration.service_name, 200, "registered", <<>>, <<>>)
        /\ UNCHANGED <<clock, hcPc, cycleStart>>
        /\ UNCHANGED <<svcVars, signVars, authVars, clientVars>>

\* a heartbeat that only notes the time
BeatKeepsStatus(info, t) == [info EXCEPT !.last_heartbeat = isoformat(t)]

\* the two assignments of heartbeat to the registered object, at time t
Beat(info, t) == [info EXCEPT !.last_heartbeat = isoformat(t), !.status = "healthy"]

\* POST /heartbeat/{service_name}
heartbeat(service_name) ==
    /\ LoopSuspended
    /\ IF service_name \notin RegisteredNames
       THEN NotFound("heartbeat", service_name)
       ELSE /\ services' = [services EXCEPT
                   ![IndexOf(services, service_name)][2] = Beat(@, clock)]
            /\ Answer("heartbeat", service_name, 200, "heartbeat_received", <<>>, <<>>)
            /\ UNCHANGED snapshot
    /\ UNCHANGED <<clock, hcPc, cycleStart>>
    /\ UNCHANGED <<svcVars, signVars, authVars, clientVars>>

\* list(self.services.values())
dict_values(items) == [i \in 1..Len(items) |-> items[i][2]]

\* GET /services
list_services ==
    /\ LoopSuspended
    /\ Answer("list", "", 200, "", <<>>, dict_values(services))
    /\ UNCHANGED <<services, clock, hcPc, snapshot, cycleStart>>
    /\ UNCHANGED <<svcVars, signVars, authVars, clientVars>>

\* GET /services/{service_name}
get_service(service_name) ==
    /\ LoopSuspended
    /\ IF service_name \notin RegisteredNames
       THEN NotFound("get", service_name)
       ELSE /\ Answer("get", service_name, 200, "", <<>>, <<Record(service_name)>>)
            /\ UNCHANGED <<services, snapshot>>
    /\ UNCHANGED <<clock, hcPc, cycleStart>>
    /\ UNCHANGED <<svcVars, signVars, authVars, clientVars>>

\* DELETE /services/{service_name}
unregister_service(service_name) ==
    /\ LoopSuspended
    /\ IF service_name \notin RegisteredNames
       THEN NotFound("unregister", service_name)
       ELSE /\ services' = dict_del(services, service_name)
            /\ snapshot' = Detach(snapshot, service_name)
            /\ Answer("unregister", service_name, 200, "unregistered", <<>>, <<>>)
    /\ UNCHANGED <<clock, hcPc, cycleStart>>
    /\ UNCHANGED <<svcVars, signVars, authVars, clientVars>>

\* a discovery that only refuses what is known to be down
UnavailableWhenUnhealthy(service) == service.status = "unhealthy"

\* service.status != "healthy"
Unavailable(service) == service.status # "healthy"

\* GET /discover/{service_name}
discover_service(service_name) ==
    /\ LoopSuspended
    /\ IF service_name \notin RegisteredNames
       THEN NotFound("discover", service_name)
       ELSE LET service == Record(service_name)
            IN  /\ IF Unavailable(service)
                   THEN Answer("discover", service_name, 503, "Service unhealthy", <<>>, <<>>)
                   ELSE Answer("discover", service_name, 200, service.status,
                               service.url, <<>>)
                /\ UNCHANGED <<services, snapshot>>
    /\ UNCHANGED <<clock, hcPc, cycleStart>>
    /\ UNCHANGED <<svcVars, signVars, authVars, clientVars>>

\* a loop that probes every record, however old its heartbeat
IsStaleNever(now_, last_heartbeat) == FALSE

\* a staleness test that allows two missed cycles more
IsStaleLate(now_, last_heartbeat) ==
    now_ - last_heartbeat > heartbeat_timeout + 2 * HealthCheckInterval

\* datetime.utcnow() - last_heartbeat > timedelta(seconds=self.heartbeat_timeout)
IsStale(now_, last_heartbeat) == now_ - last_heartbeat > heartbeat_timeout

\* the object an entry of the cycle's list refers to
EntryObject(e) == IF e.attached THEN Record(e.name) ELSE e.obj

\* a loop that writes to whatever record the dict has under the name
SetStatusByName(items, e, status) ==
    IF \E i \in 1..Len(items) : items[i][1] = e.name
    THEN [items EXCEPT ![IndexOf(items, e.name)][2].status = status]
    ELSE items

\* a write that reaches every record instead of the one examined
SetStatusOfAll(items, e, status) ==
    [i \in 1..Len(items) |-> <<items[i][1], [items[i][2] EXCEPT !.status = status]>>]

\* a loop that drops the record it marks unhealthy
SetStatusOrEvict(items, e, status) ==
    IF ~e.attached THEN items
    ELSE IF status = "unhealthy" THEN dict_del(items, e.name)
    ELSE [items EXCEPT ![IndexOf(items, e.name)][2].status = status]

\* service_info.status = status: the dict after the assignment to the object
\* the cycle holds (an object that left the dict changes nothing in it)
SetStatus(items, e, status) ==
    IF e.attached
    THEN [items EXCEPT ![IndexOf(items, e.name)][2].status = status]
    ELSE items

\* a loop that takes any end of the probe for a sign of life
ProbeStatusTrusting(outcome) == "healthy"

\* the status a probe's outcome gives
ProbeStatus(outcome) == IF outcome = "200" THEN "healthy" ELSE "unhealthy"

\* outcomes of client.get that arrive before the timeout: a 200 answer,
\* another status code, an exception (connection refused, ...)
ProbeOutcomes == {"200", "non200", "error"}

\* the for loop goes to its next entry, or the cycle ends and the task sleeps
NextEntry ==
    /\ snapshot' = Tail(snapshot)
    /\ hcPc' = IF Tail(snapshot) = <<>> THEN "sleep" ELSE "examine"

\* asyncio.sleep(30) ends: the cycle starts with a copy of the dict's items
WakeUp ==
    /\ hcPc = "sleep"
    /\ clock + HealthCheckInterval <= MaxClock
    /\ clock' = clock + HealthCheckInterval
    /\ cycleStart' = clock + HealthCheckInterval
    /\ snapshot' = items_list(services)
    /\ hcPc' = IF services = <<>> THEN "sleep" ELSE "examine"
    /\ UNCHANGED <<services, regResponse>>
    /\ UNCHANGED <<svcVars, signVars, authVars, clientVars>>

\* one entry of the for loop, up to its continue or to the await of the probe
Examine ==
    /\ hcPc = "examine"
    /\ LET service_info == EntryObject(Head(snapshot))
           last_heartbeat == fromisoformat(service_info.last_heartbeat)
       IN  IF IsStale(clock, last_heartbeat)
           THEN /\ services' = SetStatus(services, Head(snapshot), "unhealthy")
                /\ NextEntry
           ELSE /\ hcPc' = "probe"
                /\ UNCHANGED <<services, snapshot>>
    /\ UNCHANGED <<clock, cycleStart, regResponse>>
    /\ UNCHANGED <<svcVars, signVars, authVars, clientVars>>

\* the probe is answered, or fails, before its timeout
ProbeEnds(outcome) ==
    /\ hcPc = "probe"
    /\ services' = SetStatus(services, Head(snapshot), ProbeStatus(outcome))
    /\ NextEntry
    /\ UNCHANGED <<clock, cycleStart, regResponse>>
    /\ UNCHANGED <<svcVars, signVars, authVars, clientVars>>

\* the probe takes its whole timeout: httpx raises, except Exception
ProbeTimeout ==
    /\ hcPc = "probe"
    /\ clock + ProbeTimeoutSeconds <= MaxClock
    /\ clock' = clock + ProbeTimeoutSeconds
    /\ services' = SetStatus(services, Head(snapshot), "unhealthy")
    /\ NextEntry
    /\ UNCHANGED <<cycleStart, regResponse>>
    /\ UNCHANGED <<svcVars, signVars, authVars, clientVars>>

RegNext ==
    \/ \E r \in Registrations : register_service(r)
    \/ \E n \in RegNames : heartbeat(n)
    \/ list_services
    \/ \E n \in RegNames : get_service(n)
    \/ \E n \in RegNames : unregister_service(n)
    \/ \E n \in RegNames : discover_service(n)
    \/ WakeUp
    \/ Examine
    \/ \E o \in ProbeOutcomes : ProbeEnds(o)
    \/ ProbeTimeout

HealthNext ==
    \/ \E r \in DefaultRegistrations : register_service(r)
    \/ \E n \in RegNames : heartbeat(n)
    \/ \E n \in RegNames : unregister_service(n)
    \/ WakeUp
    \/ Examine
    \/ \E o \in ProbeOutcomes : ProbeEnds(o)
    \/ ProbeTimeout

(***************************************************************************)
(* The distributed client (distributed_client.py) and the interface that   *)
(* drives it (distributed_main.py).                                        *)
(***************************************************************************)
\* requests the log keeps when the step methods are called one by one
MaxRequests == 1

\* the names the step methods look up, in the order the registry lists them
NameOrder == <<"web-search", "knowledge-extraction", "research-aggregation">>

\* the lists GET /services can answer with: any of the names, each with any
\* status a registry reports, all registered at one of two hosts
ServiceLists ==
    { SelectSeq([i \in 1..Len(NameOrder) |->
                    [service_name |-> NameOrder[i], status |-> f[i],
                     url |-> <<"http://", host, NameOrder[i]>>]],
                LAMBDA r : r.service_name \in N) :
        N \in SUBSET {NameOrder[i] : i \in 1..Len(NameOrder)},
        f \in [1..Len(NameOrder) -> {"healthy", "unknown", "unhealthy"}],
        host \in {"h1", "h2"} }

\* what the GET can give: a 200 with a list, another status, or an exception
RegistryAnswers ==
    { [kind |-> "200", list |-> l] : l \in ServiceLists }
        \cup { [kind |-> k, list |-> <<>>] : k \in {"non200", "error"} }

\* a discover_services that starts from an empty dict on every call
record_services_replacing(known, list) ==
    [n \in {list[i].service_name : i \in 1..Len(list)} |->
        list[CHOOSE i \in 1..Len(list) : list[i].service_name = n].url]

\* the for loop of discover_services over the listed services, with its
\* if status in ['healthy', 'unknown', 'unhealthy']
RECURSIVE record_services(_, _)
record_services(known, list) ==
    IF list = <<>> THEN known
    ELSE LET service == Head(list)
             next == IF service.status \in {"healthy", "unknown", "unhealthy"}
                     THEN [n \in DOMAIN known \cup {service.service_name} |->
                              IF n = service.service_name THEN service.url ELSE known[n]]
                     ELSE known
         IN  record_services(next, Tail(list))

\* DistributedA2AClient.discover_services: what it leaves in self.services
\* and what it returns
discover_services(answer) ==
    /\ client_services' = IF answer.kind = "200"
                          THEN record_services(client_services, answer.list)
                          ELSE client_services
    /\ discovered' = IF answer.kind = "200"
                     THEN (IF Cardinality(DOMAIN client_services') > 0
                           THEN "True" ELSE "False")
                     ELSE "False"

\* the steps of the workflow, in the order perform_distributed_research
\* takes them
Steps == <<"session", "search", "extract", "credibility", "aggregate", "report">>

StepNames == {Steps[i] : i \in 1..Len(Steps)}

\* the service each step method looks up in self.services
ServiceOf(step) ==
    CASE step = "search" -> "web-search"
      [] step \in {"extract", "credibility"} -> "knowledge-extraction"
      [] step \in {"session", "aggregate", "report"} -> "research-aggregation"

\* the path each step method posts to
PathOf(step) ==
    CASE step = "session" -> "/session"
      [] step = "search" -> "/search"
      [] step = "extract" -> "/extract"
      [] step = "credibility" -> "/credibility"
      [] step = "aggregate" -> "/aggregate"
      [] step = "report" -> "/report"

\* how a request can end: a 200, another status, or an exception of the
\* transport (a timeout, a refused connection)
HttpOutcomes == {"200", "non200", "error"}

\* an answer that carries neither a session id nor results
NoValue == [session_id |-> "", results |-> <<>>]

\* a step method that posts without looking the service up
NotDiscoveredNever(step) == FALSE

\* if "<name>" not in self.services: raise Exception("... not available")
NotDiscovered(step) == ServiceOf(step) \notin DOMAIN client_services

\* a step method of the client: perform_distributed_search,
\* extract_insights, analyze_credibility, start_research_session,
\* aggregate_results, generate_report.  The payload holds the session id
\* and the results where the step sends them.  After its request the method
\* returns the answer's value on a 200, raises
\* Exception("... failed: <status> - <text>") on another status ("failed"),
\* and lets the exception of the transport through ("raised").
StepMethod(step, sid, results, outcome, value) ==
    IF NotDiscovered(step)
    THEN /\ lastCall' = [step |-> step, outcome |-> "unavailable", value |-> NoValue]
         /\ UNCHANGED sent
    ELSE /\ sent' = Append(sent,
                 [step |-> step,
                  url |-> (IF ServiceOf(step) \in DOMAIN client_services
                           THEN client_services[ServiceOf(step)]
                           ELSE <<>>) \o <<PathOf(step)>>,
                  payload |->
                     [session_id |-> IF step \in {"aggregate", "report"} THEN sid ELSE "",
                      results |-> IF step \in {"extract", "credibility", "aggregate"}
                                  THEN results ELSE <<>>]])
         /\ lastCall' = [step |-> step,
                         outcome |-> CASE outcome = "200" -> "returned"
                                       [] outcome = "non200" -> "failed"
                                       [] outcome = "error" -> "raised",
                         value |-> IF outcome = "200" THEN value ELSE NoValue]

\* the values the answers to a step's request can carry
ValuesOf(step) ==
    CASE step = "session" ->
            {[session_id |-> i, results |-> <<>>] : i \in {"u1", "u2"}}
      [] step = "search" ->
            {[session_id |-> "", results |-> r] : r \in {<<>>, <<"r1">>, <<"r1", "r2">>}}
      [] OTHER -> {NoValue}

ClientInit ==
    /\ client_services = [n \in {} |-> <<>>]
    /\ discovered = "none"
    /\ sent = <<>>
    /\ lastCall = [step |-> "none", outcome |-> "none", value |-> NoValue]
    /\ ui = "init"
    /\ pc = "none"
    /\ wf_session_id = ""
    /\ wf_search_results = <<>>
    /\ runResult = "none"

\* discover_services called on the client
DiscoverServices(answer) ==
    /\ discover_services(answer)
    /\ UNCHANGED <<sent, lastCall, ui, pc, wf_session_id, wf_search_results, runResult>>
    /\ UNCHANGED <<svcVars, signVars, authVars, regVars>>

\* a step method called on the client
CallStep(step, sid, results, outcome, value) ==
    /\ StepMethod(step, sid, results, outcome, value)
    /\ UNCHANGED <<client_services, discovered, ui, pc, wf_session_id, wf_search_results,
                   runResult>>
    /\ UNCHANGED <<svcVars, signVars, authVars, regVars>>

\* the client, its methods called in any order
ClientNext ==
    \/ \E answer \in RegistryAnswers : DiscoverServices(answer)
    \/ \E step \in StepNames, outcome \in HttpOutcomes :
          \E value \in ValuesOf(step) :
             /\ Len(sent) < MaxRequests
             /\ CallStep(step, "u1", <<"r1">>, outcome, value)

\* an interface that goes on whatever discover_services returned
InitializedAlways(returned) == "ready"

\* initialize_client returns what discover_services returned, and
\* interactive_mode and single_query_mode return at once on False
Initialized(returned) == IF returned = "True" THEN "ready" ELSE "ended"

\* DistributedA2AInterface.initialize_client, at the start of either mode
initialize_client(answer) ==
    /\ ui = "init"
    /\ discover_services(answer)
    /\ ui' = Initialized(discovered')
    /\ UNCHANGED <<sent, lastCall, pc, wf_session_id, wf_search_results, runResult>>
    /\ UNCHANGED <<svcVars, signVars, authVars, regVars>>

\* perform_distributed_research is entered for a query
StartRun ==
    /\ ui = "ready"
    /\ pc = "none"
    /\ pc' = Steps[1]
    /\ sent' = <<>>
    /\ lastCall' = [step |-> "none", outcome |-> "none", value |-> NoValue]
    /\ wf_session_id' = ""
    /\ wf_search_results' = <<>>
    /\ runResult' = "none"
    /\ UNCHANGED <<client_services, discovered, ui>>
    /\ UNCHANGED <<svcVars, signVars, authVars, regVars>>

\* a workflow that goes from session start straight to aggregate
StepAfterSkipping(step) ==
    IF step = "session" THEN "aggregate"
    ELSE LET i == CHOOSE k \in 1..Len(Steps) : Steps[k] = step
         IN  IF i = Len(Steps) THEN "none" ELSE Steps[i + 1]

\* the step after a step
StepAfter(step) ==
    LET i == CHOOSE k \in 1..Len(Steps) : Steps[k] = step
    IN  IF i = Len(Steps) THEN "none" ELSE Steps[i + 1]

\* a workflow that goes on with the next step after a failed one
AfterFailureGoOn(step) == StepAfter(step)

\* except Exception as e: the run prints the error and ends
AfterFailure(step) == "none"

\* perform_distributed_research takes its next step: it calls the step's
\* method with its local session_id and search_results and goes on by how
\* the call ended
RunStep(outcome, value) ==
    /\ pc \in StepNames
    /\ StepMethod(pc, wf_session_id, wf_search_results, outcome, value)
    /\ IF lastCall'.outcome = "returned"
       THEN /\ wf_session_id' = IF pc = "session" THEN value.session_id ELSE wf_session_id
            /\ wf_search_results' = IF pc = "search" THEN value.results ELSE wf_search_results
            /\ IF pc = "search" /\ value.results = <<>>
               THEN pc' = "none" /\ runResult' = "no_results"
               ELSE /\ pc' = StepAfter(pc)
                    /\ runResult' = IF pc = "report" THEN "report" ELSE runResult
       ELSE /\ pc' = AfterFailure(pc)
            /\ runResult' = "error"
            /\ UNCHANGED <<wf_session_id, wf_search_results>>
    /\ UNCHANGED <<client_services, discovered, ui>>
    /\ UNCHANGED <<svcVars, signVars, authVars, regVars>>

\* the interface: initialize_client, then one workflow run per query
WorkflowNext ==
    \/ \E answer \in RegistryAnswers : initialize_client(answer)
    \/ StartRun
    \/ \E outcome \in HttpOutcomes : \E value \in ValuesOf(pc) : RunStep(outcome, value)

(***************************************************************************)
(* Specifications.                                                         *)
(***************************************************************************)
\* the in-process services
Init == SvcInit /\ SignIdle /\ AuthInit /\ RegInit /\ ClientInit

Next == SvcNext

Spec == Init /\ [][Next]_vars

\* the services constructed with one shared secret
SvcIdle == SvcInit /\ shared_secret = [s \in Services |-> "k1"]

\* every component as constructed, the services sharing one secret
IdleInit == SvcIdle /\ SignIdle /\ AuthInit /\ RegInit /\ ClientInit

\* message signing
SpecSign == IdleInit /\ [][SignNext]_vars

\* the services, with register_handler called at any time
SpecHandlers == IdleInit /\ [][HandlersNext]_vars

\* the aggregation server and its authentication dependency
SpecAuth == IdleInit /\ [][AuthNext]_vars

SpecAggregation == IdleInit /\ [][AggregationNext]_vars

\* the event loop runs every task that is ready: a loop whose queue.get()
\* has an item goes on, and a handler that terminates is resumed until it
\* has ended
LoopsRun ==
    \A s \in Services :
       /\ WF_vars(LoopGet(s))
       /\ WF_vars(HandlerReturn(s) \/ HandlerRaise(s))

\* the services while their loops run and every handler terminates
SpecLive == IdleInit /\ [][HandlersNext]_vars /\ LoopsRun

\* replayed envelopes and replayed header triples
SpecReplay == IdleInit /\ [][ReplayNext]_vars

\* the service registry: its routes, and one cycle of the health-check loop
RegSpecInit ==
    /\ SvcIdle /\ SignIdle /\ AuthInit
    /\ RegInitAt(MaxClock - HealthCheckInterval - ProbeTimeoutSeconds)
    /\ ClientInit

SpecReg == RegSpecInit /\ [][RegNext]_vars

\* the health-check loop over several cycles, with the routes that change
\* the registry
SpecHealth == IdleInit /\ [][HealthNext]_vars

\* the distributed client, its methods called in any order
SpecClient == IdleInit /\ [][ClientNext]_vars

\* the interface of distributed_main.py driving the client
SpecWorkflow == IdleInit /\ [][WorkflowNext]_vars

(***************************************************************************)
(* Properties of the in-process services (checked under Spec).             *)
(***************************************************************************)
\* C1: receive_message enqueues only what verify_message accepts, and an
\* envelope with a missing, empty or wrong signature is dropped without
\* anything being raised to the caller: every queued envelope verifies
\* under its receiver's secret and no receive_message call ends in an
\* exception.
C1_OnlyVerifiedNeverRaises ==
    /\ \A s \in Services : \A i \in 1..Len(message_queue[s]) :
          verify_message(shared_secret[s], message_queue[s][i].env) = "True"
    /\ callResult.result # "TypeError"

\* C2: handlers run in the arrival order of the verified messages: of two
\* messages of one service that both reached a handler, the one accepted
\* first was dispatched first.
C2_FifoDispatch ==
    \A s \in Services : \A i, j \in 1..Len(dispatched[s]) :
       (i < j /\ dispatched[s][i].handler # "none" /\ dispatched[s][j].handler # "none")
          => dispatched[s][i].seq < dispatched[s][j].seq

C2_Witness ==
    \E s \in Services : \E i, j \in 1..Len(dispatched[s]) :
       /\ i < j
       /\ dispatched[s][i].handler # "none"
       /\ dispatched[s][j].handler # "none"

\* C3: a handler that raises leaves the loop polling, takes nothing else out
\* of the queue and changes no handler; the task of a loop ends only after a
\* stop was requested, never because a handler raised.
C3_HandlerFailureIsolated ==
    /\ [][\A s \in Services :
            (/\ Len(outcomes'[s]) > Len(outcomes[s])
             /\ outcomes'[s][Len(outcomes'[s])].outcome = "raised")
            => /\ loop'[s] = "get"
               /\ \/ message_queue'[s] = message_queue[s]
                  \/ message_queue'[s] = Tail(message_queue[s])
               /\ message_handlers' = message_handlers]_vars
    /\ [](\A s \in Services : loop[s] = "stopped" => stopRequested[s])

C3_Witness ==
    \E s \in Services : \E i \in 1..Len(outcomes[s]), j \in 1..Len(dispatched[s]) :
       /\ outcomes[s][i].outcome = "raised"
       /\ dispatched[s][j].seq > outcomes[s][i].seq
       /\ dispatched[s][j].handler # "none"
       /\ loop[s] \in {"get", "handler"}

\* C4: cancellation is cooperative: a handler that was invoked is never cut
\* short by the cancellation of the loop's task.
C4_HandlerRunsToCompletion ==
    \A s \in Services : \A i \in 1..Len(outcomes[s]) :
       outcomes[s][i].outcome # "cancelled"

\* the lifecycle state of a service's loop
Lifecycle(s) ==
    CASE loop[s] = "idle" -> "Idle"
      [] loop[s] = "stopped" -> "Stopped"
      [] loop[s] \in {"get", "handler"} /\ must_cancel[s] # "none" -> "Stopping"
      [] OTHER -> "Running"

\* C5: the lifecycle only moves Idle -> Running -> Stopping -> Stopped, and a
\* loop that is Stopping or Stopped dispatches no message.
C5_LifecycleForward ==
    [][\A s \in Services :
         /\ \/ Lifecycle(s)' = Lifecycle(s)
            \/ <<Lifecycle(s), Lifecycle(s)'>> \in
                  { <<"Idle", "Running">>, <<"Running", "Stopping">>,
                    <<"Stopping", "Stopped">> }
         /\ Lifecycle(s) \in {"Stopping", "Stopped"} => dispatched'[s] = dispatched[s]]_vars

\* C7: a send_message between services that hold different secrets is always
\* dropped by the receiver and leaves every queue unchanged, and no queued
\* envelope carries the signature another secret gives its content.
C7_DifferentSecretsRejected ==
    /\ [][\A a, b \in Services, pl \in Payloads, ts \in Times :
            (shared_secret[a] # shared_secret[b] /\ Send(a, b, pl, ts))
               => (message_queue' = message_queue /\ callResult'.result = "dropped")]_vars
    /\ [](\A s \in Services : \A i \in 1..Len(message_queue[s]) :
            \A k \in Keys \ {shared_secret[s]} :
               message_queue[s][i].env.signature # sign_message(k, message_queue[s][i].env))

C7_Witness ==
    /\ shared_secret["web-search"] # shared_secret["web-research-aggregation"]
    /\ callResult = [op |-> "send_message", result |-> "dropped"]

(***************************************************************************)
(* Properties of message signing (checked under SpecSign).                 *)
(***************************************************************************)
\* C6: an envelope made by create_message verifies under the same secret,
\* every time it is verified; after any one of id, sender, recipient,
\* payload or timestamp was changed, it no longer verifies.
C6_SignVerifyRoundTrip ==
    \A i \in 1..Len(msgVerified) :
       msgVerified[i] = (IF msgPhase = "signed" THEN "True" ELSE "False")

C6_Witness ==
    /\ msgPhase = "altered"
    /\ Len(msgVerified) = MaxVerify
    /\ sign_message(msgKey, msg) # msg.signature

(***************************************************************************)
(* Properties of the request authentication (checked under SpecAuth).      *)
(***************************************************************************)
\* the timestamp of the last request, parsed
RequestTime == ParseInt(request.headers.ts.text)

\* C8: a request whose integer timestamp is more than 300 seconds from the
\* server's clock, in the past or in the future, is answered 401 and its
\* route does not run; one within 300 seconds is never answered
\* "Request timestamp too old".
C8_FreshnessWindow ==
    (request.endpoint # "none" /\ RequestTime.ok) =>
       /\ Abs(request.at - RequestTime.val) > 300
             => (response.status = 401 /\ ~response.ran)
       /\ Abs(request.at - RequestTime.val) <= 300
             => response.detail # "Request timestamp too old"

C8_Witness ==
    /\ request.endpoint # "none"
    /\ RequestTime.ok
    /\ RequestTime.val - request.at = 301
    /\ request.headers.sig =
          create_signature(ServerSecret, request.headers.name.text,
                           request.headers.ts.text, <<>>)
    /\ response.status = 401
    /\ response.detail = "Request timestamp too old"

\* whether the last request has all three headers, an integer timestamp and
\* the signature verify_request expects for them
HeadersAcceptable ==
    LET h == request.headers
    IN  /\ HdrTruthy(h.name) /\ HdrTruthy(h.ts) /\ Truthy(h.sig)
        /\ RequestTime.ok
        /\ h.sig = create_signature(ServerSecret, h.name.text, h.ts.text, <<>>)

\* C9: a route runs only for a request with all three headers, an integer
\* timestamp and a matching signature; every other request is answered with
\* the authentication error 401 and its route does not run.
C9_RejectsWith401 ==
    request.endpoint # "none" =>
       /\ response.ran => HeadersAcceptable
       /\ ~HeadersAcceptable => (response.status = 401 /\ ~response.ran)

\* C10: the signature binds the body: a request whose route ran carried the
\* signature of its service name, timestamp and the body it carries.
C10_SignatureBindsBody ==
    (request.endpoint # "none" /\ response.ran) =>
       request.headers.sig =
          create_signature(ServerSecret, request.headers.name.text,
                           request.headers.ts.text, request.body)

(***************************************************************************)
(* Properties of the registry's routes (checked under SpecReg).            *)
(***************************************************************************)
\* the names in a sequence of dict items are all different
UniqueNames(items) ==
    \A i, j \in 1..Len(items) : items[i][1] = items[j][1] => i = j

\* the record of every registered name but n is what it was
OthersUnchanged(n) ==
    \A m \in RegisteredNames \ {n} :
       /\ \E i \in 1..Len(services') : services'[i][1] = m
       /\ services'[IndexOf(services', m)][2] = Record(m)

\* the item at position 1 was registered after the item at position 2: its
\* name was registered again while it was in the dict
FirstRegisteredAgain ==
    /\ Len(services) = 2
    /\ fromisoformat(services[1][2].registered_at)
          > fromisoformat(services[2][2].registered_at)

\* C11: registering a registered name replaces its record: the registry
\* never holds two records of one name, no list() answer does, and list()
\* has the same size before and after a repeated register.
C11_RegisterReplaces ==
    /\ [](UniqueNames(services))
    /\ [](regResponse.op = "list" =>
            \A i, j \in 1..Len(regResponse.records) :
               regResponse.records[i].service_name = regResponse.records[j].service_name
                  => i = j)
    /\ [][\A r \in Registrations :
            (r.service_name \in RegisteredNames /\ register_service(r))
               => Len(dict_values(services')) = Len(dict_values(services))]_vars

C11_Witness ==
    /\ FirstRegisteredAgain
    /\ regResponse.op = "list"
    /\ Len(regResponse.records) = 2
    /\ regResponse.records[1] = services[1][2]

\* C12: discover answers 200 with the record's url exactly when the name is
\* registered with status healthy at the time of the call, 503 when it is
\* registered with another status, 404 when it is not registered, and it
\* leaves the registry as it was.
C12_DiscoverOnlyHealthy ==
    [][\A n \in RegNames :
         discover_service(n) =>
            /\ services' = services
            /\ IF n \notin RegisteredNames
               THEN regResponse'.status = 404
               ELSE IF Record(n).status = "healthy"
               THEN /\ regResponse'.status = 200
                    /\ regResponse'.url = Record(n).url
               ELSE /\ Record(n).status \in {"unknown", "unhealthy"}
                    /\ regResponse'.status = 503]_vars

C12_Witness ==
    /\ regResponse.op = "discover"
    /\ regResponse.status = 503
    /\ regResponse.name \in RegisteredNames
    /\ Record(regResponse.name).status = "unknown"
    /\ \E m \in RegisteredNames : Record(m).status = "healthy"

\* C13: heartbeat of a registered name sets that record healthy with
\* last_heartbeat now and changes nothing else; heartbeat of an unregistered
\* name answers 404 and leaves the registry unchanged.
C13_HeartbeatMarksHealthy ==
    [][\A n \in RegNames :
         heartbeat(n) =>
            IF n \in RegisteredNames
            THEN /\ regResponse'.status = 200
                 /\ DictKeys(services') = DictKeys(services)
                 /\ services'[IndexOf(services', n)][2] =
                       [Record(n) EXCEPT !.status = "healthy",
                                         !.last_heartbeat = IntToStr(clock)]
                 /\ OthersUnchanged(n)
            ELSE /\ regResponse'.status = 404
                 /\ services' = services]_vars

C13_Witness ==
    /\ regResponse.op = "heartbeat"
    /\ regResponse.status = 200
    /\ Len(services) = 2
    /\ Record(regResponse.name).status = "healthy"
    /\ fromisoformat(Record(regResponse.name).last_heartbeat)
          > fromisoformat(Record(regResponse.name).registered_at)
    /\ \E m \in RegisteredNames : Record(m).status = "unhealthy"

\* C14: register leaves exactly one record of the name, with status unknown
\* and the host, port, url and metadata of the call, whatever record the
\* name had before, and changes no other record.
C14_RegisterUpserts ==
    [][\A r \in Registrations :
         register_service(r) =>
            /\ Cardinality({i \in 1..Len(services') :
                              services'[i][1] = r.service_name}) = 1
            /\ LET info == services'[IndexOf(services', r.service_name)][2]
               IN  /\ info.status = "unknown"
                   /\ info.service_name = r.service_name
                   /\ info.host = r.host
                   /\ info.port = r.port
                   /\ info.url = <<"http://", r.host, ":", r.port>>
                   /\ info.metadata = r.metadata
            /\ OthersUnchanged(r.service_name)
            /\ {services'[i][1] : i \in 1..Len(services')}
                  = RegisteredNames \cup {r.service_name}]_vars

C14_Witness ==
    /\ FirstRegisteredAgain
    /\ regResponse.op = "register"
    /\ regResponse.name = services[1][1]
    /\ services[1][2].host = "h2"
    /\ services[1][2].status = "unknown"
    /\ services[2][2].status = "healthy"

\* C15: deregister removes the record of the name and no other; for a name
\* that is not registered, get, heartbeat, discover and deregister answer
\* 404 and change nothing; a name that is not registered stays so until it
\* is registered again.
C15_DeregisterRemoves ==
    /\ [][\A n \in RegNames :
            (n \in RegisteredNames /\ unregister_service(n)) =>
               /\ regResponse'.status = 200
               /\ {services'[i][1] : i \in 1..Len(services')} = RegisteredNames \ {n}
               /\ Len(services') = Len(services) - 1
               /\ OthersUnchanged(n)]_vars
    /\ [][\A n \in RegNames :
            (/\ n \notin RegisteredNames
             /\ \/ get_service(n) \/ heartbeat(n)
                \/ discover_service(n) \/ unregister_service(n)) =>
               /\ regResponse'.status = 404
               /\ services' = services]_vars
    /\ [][\A n \in RegNames :
            (n \notin RegisteredNames
               /\ n \in {services'[i][1] : i \in 1..Len(services')}) =>
               \E r \in Registrations : r.service_name = n /\ register_service(r)]_vars

C15_Witness ==
    /\ regResponse.op = "unregister"
    /\ regResponse.status = 200
    /\ regResponse.name \notin RegisteredNames
    /\ Len(services) = 1
    /\ services[1][2].status = "healthy"

(***************************************************************************)
(* Properties of the health-check loop (checked under SpecHealth).         *)
(***************************************************************************)
\* a step of the for loop of a cycle
CheckStep == Examine \/ ProbeTimeout \/ \E o \in ProbeOutcomes : ProbeEnds(o)

\* seconds since the last heartbeat of a registered name
HeartbeatAge(n) == clock - ParseInt(Record(n).last_heartbeat).val

\* the record a name has after the step
RecordAfter(n) == services'[IndexOf(services', n)][2]

\* C16: a registered record whose last heartbeat is more than 60 seconds old
\* when the cycle examines it is marked unhealthy by that step, without a
\* probe, whatever the other records are; and a cycle examines every record
\* that is registered when it starts.
C16_StaleMarkedUnhealthy ==
    /\ [][(/\ hcPc = "examine"
           /\ Head(snapshot).attached
           /\ HeartbeatAge(Head(snapshot).name) > 60
           /\ Examine)
             => /\ RecordAfter(Head(snapshot).name).status = "unhealthy"
                /\ hcPc' # "probe"]_vars
    /\ [][WakeUp => /\ [i \in 1..Len(snapshot') |-> snapshot'[i].name] = DictKeys(services)
                    /\ \A i \in 1..Len(snapshot') : snapshot'[i].attached]_vars

C16_Witness ==
    /\ hcPc = "sleep"
    /\ clock = cycleStart
    /\ Len(services) = 2
    /\ \E n, m \in RegisteredNames :
          /\ HeartbeatAge(n) > 60
          /\ Record(n).status = "unhealthy"
          /\ HeartbeatAge(m) <= 60
          /\ Record(m).status = "healthy"

\* C17: the end of a probe changes the status of the probed record only, to
\* healthy after a 200 answer and to unhealthy after any failure or a
\* timeout; every other record is exactly what it was.
C17_ProbeFailureIsolated ==
    [][\A o \in ProbeOutcomes \cup {"timeout"} :
         (hcPc = "probe" /\ IF o = "timeout" THEN ProbeTimeout ELSE ProbeEnds(o))
            => LET e == Head(snapshot)
               IN  /\ DictKeys(services') = DictKeys(services)
                   /\ \A m \in RegisteredNames :
                         IF m = e.name /\ e.attached
                         THEN RecordAfter(m) =
                                 [Record(m) EXCEPT !.status =
                                     IF o = "200" THEN "healthy" ELSE "unhealthy"]
                         ELSE RecordAfter(m) = Record(m)]_vars

C17_Witness ==
    /\ hcPc = "sleep"
    /\ Len(services) = 2
    /\ \A i \in 1..2 :
          /\ services[i][2].last_heartbeat = services[i][2].registered_at
          /\ ParseInt(services[i][2].registered_at).val < cycleStart
          /\ clock - ParseInt(services[i][2].last_heartbeat).val <= 60
    /\ services[1][2].status = "unhealthy"
    /\ services[2][2].status = "healthy"

\* C18: nothing delays the start of a probe: every probe of a cycle starts
\* at the time the cycle started, however long the probes of the other
\* records of the cycle take.
C18_ProbesNotDelayed ==
    hcPc = "probe" => clock = cycleStart

\* C19: no step of the health-check loop adds or removes a record, and the
\* set of registered names changes only in register and deregister.
C19_LoopKeepsRecords ==
    /\ [][(WakeUp \/ CheckStep) => DictKeys(services') = DictKeys(services)]_vars
    /\ [][DictKeys(services') # DictKeys(services) =>
            \/ \E r \in Registrations : register_service(r)
            \/ \E n \in RegNames : unregister_service(n)]_vars

C19_Witness ==
    /\ hcPc = "sleep"
    /\ cycleStart > 0
    /\ Len(services) = 2
    /\ \A i \in 1..2 : services[i][2].status = "unhealthy"
    /\ \E i \in 1..2 : clock - ParseInt(services[i][2].last_heartbeat).val > 60

(***************************************************************************)
(* Status changes (checked under SpecReg).                                 *)
(***************************************************************************)
Statuses == {"unknown", "healthy", "unhealthy"}

\* the step is a heartbeat of n, or a step of the loop at n's entry
HeartbeatOrCheck(n) ==
    \/ heartbeat(n)
    \/ hcPc \in {"examine", "probe"} /\ Head(snapshot).name = n /\ CheckStep

\* C20: every status is unknown, healthy or unhealthy, and the status of a
\* name that stays registered changes only in a heartbeat of that name or in
\* the loop's check of that name: not in list, get, discover, a register of
\* the same or another name, or a deregister of another name.
C20_StatusOnlyByHeartbeatOrCheck ==
    /\ [](\A i \in 1..Len(services) : services[i][2].status \in Statuses)
    /\ [][\A n \in RegisteredNames :
            (/\ n \in {services'[i][1] : i \in 1..Len(services')}
             /\ RecordAfter(n).status # Record(n).status)
               => HeartbeatOrCheck(n)]_vars

\* C20 as amended: ... or in a register of that same name, which puts a new
\* record with status unknown in the place of the old one.
C20_StatusByHeartbeatCheckOrRegister ==
    /\ [](\A i \in 1..Len(services) : services[i][2].status \in Statuses)
    /\ [][\A n \in RegisteredNames :
            (/\ n \in {services'[i][1] : i \in 1..Len(services')}
             /\ RecordAfter(n).status # Record(n).status)
               => \/ HeartbeatOrCheck(n)
                  \/ /\ \E r \in Registrations :
                           r.service_name = n /\ register_service(r)
                     /\ RecordAfter(n).status = "unknown"]_vars

C20_Witness ==
    /\ FirstRegisteredAgain
    /\ regResponse.op = "register"
    /\ regResponse.name = services[1][1]
    /\ services[1][2].status = "unknown"
    /\ services[2][2].status = "unhealthy"


(***************************************************************************)
(* Properties of send_message and of the dispatch loop (checked under      *)
(* Spec).                                                                  *)
(***************************************************************************)
\* what a service holds itself: everything its own code can read
ServiceState(a) ==
    <<shared_secret[a], message_handlers[a], message_queue[a], loop[a],
      must_cancel[a], current[a], stopRequested[a], dispatched[a], outcomes[a]>>

\* the state of service a after the step
ServiceStateAfter(a) == ServiceState(a)'

\* C27: the sender cannot observe whether its message was accepted:
\* send_message returns normally (it raises nothing), and leaves the state
\* of the sending service as it was, whether the receiver enqueued the
\* envelope or dropped it as unverified.
C27_SenderCannotObserve ==
    [][\A a, b \in Services, pl \in Payloads, ts \in Times :
          Send(a, b, pl, ts) =>
             /\ callResult'.op = "send_message"
             /\ callResult'.result \in {"enqueued", "dropped"}
             /\ (a # b => ServiceStateAfter(a) = ServiceState(a))]_vars

\* a send_message whose envelope was dropped, after one that was enqueued
C27_Witness ==
    /\ callResult = [op |-> "send_message", result |-> "dropped"]
    /\ arrivals >= 1

\* the type the claims below speak of: payload.type, "unknown" without one
PayloadType(m) == IF "type" \in DOMAIN m.payload THEN m.payload.type ELSE "unknown"

\* the loop of s takes a message in this step
Takes(s) == Len(dispatched'[s]) = Len(dispatched[s]) + 1

\* C28: a message whose payload type has no registered handler (no type
\* field counts as "unknown") is removed from the inbox, invokes no
\* handler, and leaves the loop where it takes the next message.
C28_UnhandledTypeSkipped ==
    [][\A s \in Services :
          (/\ Takes(s)
           /\ PayloadType(Head(message_queue[s]).env) \notin DOMAIN message_handlers[s])
          => /\ message_queue'[s] = Tail(message_queue[s])
             /\ dispatched'[s][Len(dispatched'[s])] =
                   [seq |-> Head(message_queue[s]).seq, handler |-> "none"]
             /\ outcomes'[s] = outcomes[s]
             /\ current'[s] = 0
             /\ loop'[s] = "get"]_vars

\* a message without a type field was skipped, and the next message of the
\* queue was then dispatched to its handler
C28_Witness ==
    \E s \in Services :
       /\ Len(dispatched[s]) = 2
       /\ dispatched[s][1].handler = "none"
       /\ dispatched[s][2].handler # "none"
       /\ dispatched[s][1].seq < dispatched[s][2].seq
       /\ outcomes[s] # <<>>

\* the invocations of s so far: the dispatched messages that had a handler
Invocations(s) == SelectSeq(dispatched[s], LAMBDA d : d.handler # "none")

\* C29: at most one handler runs at a time per service: the loop takes a
\* message only when no handler invocation of the service is in progress,
\* so every invocation but the one in progress has ended.
C29_OneHandlerAtATime ==
    /\ [][\A s \in Services : Takes(s) => current[s] = 0 /\ loop[s] = "get"]_vars
    /\ [](\A s \in Services :
            /\ Len(Invocations(s)) - Len(outcomes[s]) = (IF current[s] # 0 THEN 1 ELSE 0)
            /\ current[s] # 0 =>
                  Invocations(s)[Len(Invocations(s))].seq = current[s])

\* a handler is suspended while another message waits in the inbox
C29_Witness ==
    \E s \in Services :
       /\ current[s] # 0
       /\ loop[s] = "handler"
       /\ message_queue[s] # <<>>


(***************************************************************************)
(* Properties of the handler table (checked under SpecHandlers).           *)
(***************************************************************************)
\* C30: the handler table has one handler per message type and the last
\* registration wins: registering h for T makes h the handler of T and
\* leaves the handlers of all other types as they were, and a message of
\* type T is dispatched to the handler the table has for T at the moment
\* it is dispatched.
C30_LastRegistrationWins ==
    /\ [][\A s \in Services, t \in {"perform_search", "get_cached_results"},
             h \in {"handle_filter_results", "handle_get_cached_results"} :
             register_handler(s, t, h) =>
                /\ message_handlers'[s][t] = h
                /\ DOMAIN message_handlers'[s] = DOMAIN message_handlers[s] \cup {t}
                /\ \A u \in DOMAIN message_handlers[s] \ {t} :
                      message_handlers'[s][u] = message_handlers[s][u]]_vars
    /\ [][\A s \in Services :
             (/\ Takes(s)
              /\ PayloadType(Head(message_queue[s]).env) \in DOMAIN message_handlers[s])
             => dispatched'[s][Len(dispatched'[s])].handler =
                   message_handlers[s][PayloadType(Head(message_queue[s]).env)]]_vars

\* a perform_search message went to the constructor's handler, the handler
\* of perform_search was then replaced, and the message that followed went
\* to the new handler; the handlers of the other types are the constructor's
C30_Witness ==
    LET s == "web-search"
    IN  /\ Len(dispatched[s]) = 2
        /\ dispatched[s][1].handler = "handle_perform_search"
        /\ dispatched[s][2].handler = "handle_filter_results"
        /\ callResult = [op |-> "register_handler", result |-> "handle_filter_results"]
        /\ message_handlers[s]["perform_search"] = "handle_filter_results"
        /\ message_handlers[s]["filter_results"] = "handle_filter_results"
        /\ message_handlers[s]["get_cached_results"] = "handle_get_cached_results"


(***************************************************************************)
(* Properties of the sessions of the aggregation server (checked under     *)
(* SpecAuth).                                                              *)
(***************************************************************************)
\* C25: a report answered for a started session carries the id that
\* session start returned, and its total_sources is the number of results
\* passed to aggregate for the session since it was started.
C25_ReportMatchesSession ==
    (request.endpoint = "report" /\ response.status = 200) =>
       /\ response.session_id \in DOMAIN research_sessions
       /\ response.report["session_id"] = <<"id", response.session_id>>
       /\ response.report["total_sources"] =
             <<"n", research_sessions[response.session_id].sources_analyzed>>

IsPrefix(a, b) == Len(a) <= Len(b) /\ SubSeq(b, 1, Len(a)) = a

\* C26: session state is append-only: in every step, for every session
\* id, the accumulated search results before the step are a prefix of
\* those after it, and sources_analyzed does not decrease.
C26_SessionAppendOnly ==
    [][\A sid \in DOMAIN research_sessions :
          /\ sid \in DOMAIN research_sessions'
          /\ IsPrefix(research_sessions[sid].search_results,
                      research_sessions'[sid].search_results)
          /\ research_sessions'[sid].sources_analyzed >=
                research_sessions[sid].sources_analyzed]_vars


(***************************************************************************)
(* Properties of the distributed client (checked under SpecClient).        *)
(***************************************************************************)
\* C21: discover_services records every service the registry lists,
\* whatever its status, and returns true if and only if the registry's
\* list held at least one service: it returns false on an empty list, on
\* a non-success answer and on a failed call.
C21_DiscoverRecordsAndReports ==
    [][\A answer \in RegistryAnswers :
          DiscoverServices(answer) =>
             /\ answer.kind = "200" =>
                   \A i \in 1..Len(answer.list) :
                      /\ answer.list[i].service_name \in DOMAIN client_services'
                      /\ client_services'[answer.list[i].service_name] = answer.list[i].url
             /\ discovered' = "True" <=> (answer.kind = "200" /\ answer.list # <<>>)]_vars

\* C22: a step whose service name is not in the discovered set fails with
\* the service-unavailable error, and no request is issued for it.
C22_UndiscoveredStepFailsFirst ==
    [][\A step \in StepNames, outcome \in HttpOutcomes :
          \A value \in ValuesOf(step) :
             (/\ CallStep(step, "u1", <<"r1">>, outcome, value)
              /\ ServiceOf(step) \notin DOMAIN client_services)
             => /\ sent' = sent
                /\ lastCall'.step = step
                /\ lastCall'.outcome = "unavailable"]_vars

\* the report step was refused for a client that has discovered other
\* services, and nothing was sent
C22_Witness ==
    /\ lastCall.step = "report"
    /\ lastCall.outcome = "unavailable"
    /\ DOMAIN client_services = {"web-search", "knowledge-extraction"}
    /\ sent = <<>>

(***************************************************************************)
(* Properties of the workflow (checked under SpecWorkflow).                *)
(***************************************************************************)
\* the ways a step fails
Failures == {"unavailable", "failed", "raised"}

\* C23: a failed step aborts the run: each step issues at most one
\* request, the failing step ends the run with the error, no request is
\* issued after it until another run starts, and a report is produced only
\* by a run in which every step issued its request and none failed.
C23_FailedStepAborts ==
    /\ [][\A outcome \in HttpOutcomes : \A value \in ValuesOf(pc) :
             (RunStep(outcome, value) /\ lastCall'.outcome \in Failures)
             => /\ pc' = "none"
                /\ runResult' = "error"
                /\ Len(sent') <= Len(sent) + 1]_vars
    /\ [][runResult = "error" => (sent' = sent \/ StartRun)]_vars
    /\ [](\A i, j \in 1..Len(sent) : i # j => sent[i].step # sent[j].step)
    /\ [](runResult = "report" =>
            /\ Len(sent) = Len(Steps)
            /\ \A i \in 1..Len(sent) : sent[i].step = Steps[i]
            /\ lastCall.outcome = "returned")

\* the extract step got a non-success answer after session start and
\* search had succeeded, and the run ended there
C23_Witness ==
    /\ runResult = "error"
    /\ pc = "none"
    /\ lastCall.step = "extract"
    /\ lastCall.outcome = "failed"
    /\ Len(sent) = 3

\* C24: when discover_services returns false the interface ends: no
\* request of the workflow is ever sent.
C24_NoRequestAfterFailedDiscovery ==
    /\ [][\A answer \in RegistryAnswers :
             (initialize_client(answer) /\ discovered' = "False") => ui' = "ended"]_vars
    /\ [][ui = "ended" => ui' = "ended"]_vars
    /\ [](ui = "ended" => sent = <<>> /\ pc = "none" /\ lastCall = [step |-> "none", outcome |-> "none", value |-> NoValue])
    /\ [](discovered = "False" => ui = "ended")

\* the registry answered with an empty list and the interface ended
C24_Witness ==
    /\ ui = "ended"
    /\ discovered = "False"
    /\ sent = <<>>


\* C31: in a run the requests are issued in the order session, search,
\* extract, credibility, aggregate, report, each only after the one before
\* it returned success; aggregate and report carry the session id that
\* session start returned, and aggregate carries the results that search
\* returned.
C31_StepsInSequence ==
    /\ [](\A i \in 1..Len(sent) :
            /\ sent[i].step = Steps[i]
            /\ sent[i].step \in {"aggregate", "report"} =>
                  /\ sent[i].payload.session_id = wf_session_id
                  /\ wf_session_id # ""
            /\ sent[i].step = "aggregate" =>
                  sent[i].payload.results = wf_search_results)
    /\ [][(Len(sent') = Len(sent) + 1 /\ sent # <<>>) =>
             /\ lastCall.outcome = "returned"
             /\ lastCall.step = sent[Len(sent)].step]_vars
    /\ [][\A outcome \in HttpOutcomes : \A value \in ValuesOf(pc) :
             (RunStep(outcome, value) /\ lastCall'.outcome = "returned") =>
                /\ pc = "session" => wf_session_id' = value.session_id
                /\ pc # "session" => wf_session_id' = wf_session_id
                /\ pc = "search" => wf_search_results' = value.results
                /\ pc # "search" => wf_search_results' = wf_search_results]_vars

\* a run that issued all six requests, with the session id "u2" and two
\* search results in the aggregate request
C31_Witness ==
    /\ Len(sent) = Len(Steps)
    /\ runResult = "report"
    /\ sent[5].payload = [session_id |-> "u2", results |-> <<"r1", "r2">>]
    /\ sent[6].payload = [session_id |-> "u2", results |-> <<>>]

(***************************************************************************)
(* Properties of the client's discovered set (checked under SpecClient).   *)
(***************************************************************************)
\* the names a list of the registry holds
ListedNames(list) == {list[i].service_name : i \in 1..Len(list)}

\* C39: the client's discovered set only grows: discover_services never
\* removes an entry and leaves the entries the answer does not list as they
\* were, so a service discovered earlier stays usable by the step methods;
\* a later call that receives an empty list returns true when an earlier
\* call had discovered something; a non-success or failed call leaves the
\* set unchanged.
C39_DiscoveredSetOnlyGrows ==
    /\ [][/\ DOMAIN client_services \subseteq DOMAIN client_services'
          /\ discovered' = "True" => DOMAIN client_services' # {}]_vars
    /\ [](\A list \in ServiceLists :
            LET recorded == record_services(client_services, list)
            IN  /\ DOMAIN client_services \subseteq DOMAIN recorded
                /\ \A n \in DOMAIN client_services \ ListedNames(list) :
                      recorded[n] = client_services[n])
    /\ [][\A kind \in {"200", "non200", "error"} :
             DiscoverServices([kind |-> kind, list |-> <<>>]) =>
                /\ client_services' = client_services
                /\ discovered' = "True" <=>
                      (kind = "200" /\ DOMAIN client_services # {})]_vars
    /\ [][\A step \in StepNames \cap {lastCall'.step}, outcome \in HttpOutcomes :
             \A value \in ValuesOf(step) :
                (/\ ServiceOf(step) \in DOMAIN client_services
                 /\ CallStep(step, "u1", <<"r1">>, outcome, value))
                => /\ Len(sent') = Len(sent) + 1
                   /\ sent'[Len(sent')].url =
                         client_services[ServiceOf(step)] \o <<PathOf(step)>>
                   /\ lastCall'.outcome # "unavailable"]_vars

\* the last discover_services call returned false, the set still holds two
\* services recorded by two different calls, and a search was sent to the
\* url recorded by the earlier one
C39_Witness ==
    /\ discovered = "False"
    /\ DOMAIN client_services = {"web-search", "knowledge-extraction"}
    /\ client_services["web-search"] = <<"http://", "h1", "web-search">>
    /\ client_services["knowledge-extraction"] = <<"http://", "h2", "knowledge-extraction">>
    /\ Len(sent) = 1
    /\ sent[1].url = <<"http://", "h1", "web-search", "/search">>
    /\ lastCall.outcome = "returned"

(***************************************************************************)
(* Properties of both aggregation components (checked under                *)
(* SpecAggregation).                                                       *)
(***************************************************************************)
\* C32: aggregate and report for a session id that was never started
\* answer 404 (not found) on the aggregation server and are ignored
\* without any output by the in-process aggregation service; in both cases
\* no session is created and every existing session is left unchanged.
C32_UnknownSessionNotFoundOrIgnored ==
    /\ [][\A sid \in AllSids, rs \in ResultLists :
             \A h \in AuthenticHeaders(<<"session_id", sid, "results">> \o rs) :
                (sid \notin DOMAIN research_sessions /\ aggregate_results(h, sid, rs))
                => /\ response'.status = 404
                   /\ research_sessions' = research_sessions]_vars
    /\ [][\A sid \in AllSids :
             \A h \in AuthenticHeaders(<<"session_id", sid>>) :
                (sid \notin DOMAIN research_sessions /\ generate_report(h, sid))
                => /\ response'.status = 404
                   /\ research_sessions' = research_sessions]_vars
    /\ [][\A sid \in AllSids \cup {""}, rs \in ResultLists :
             (sid \notin DOMAIN service_sessions /\ handle_aggregate_results(sid, rs))
             => /\ handled'.printed = ""
                /\ service_sessions' = service_sessions]_vars
    /\ [][\A sid \in AllSids \cup {""} :
             (sid \notin DOMAIN service_sessions /\ handle_generate_report(sid))
             => /\ handled'.printed = ""
                /\ service_sessions' = service_sessions]_vars

\* the server answered 404 to an aggregate for "u1" and the service ignored
\* an aggregate for "u1", each still holding only its session "s1" with
\* the result it had
C32_Witness ==
    /\ request.endpoint = "aggregate"
    /\ response.status = 404
    /\ response.session_id = "u1"
    /\ DOMAIN research_sessions = {"s1"}
    /\ research_sessions["s1"].search_results = <<"r1">>
    /\ handled = [message_type |-> "aggregate_web_results", session_id |-> "u1",
                  printed |-> ""]
    /\ DOMAIN service_sessions = {"s1"}
    /\ service_sessions["s1"].search_results = <<"r1">>

(***************************************************************************)
(* What the health-check loop sets healthy (checked under SpecHealth).     *)
(***************************************************************************)
\* seconds between the clock and the last heartbeat of the object an entry
\* of the cycle's list refers to
EntryAge(e) == clock - fromisoformat(EntryObject(e).last_heartbeat)

\* C33: the loop sets a record healthy only at the end of a probe of that
\* record that returned 200, and a probe runs only for a record whose last
\* heartbeat was within heartbeat_timeout when the loop examined it; a
\* stale record is marked unhealthy without a probe, and a stale unhealthy
\* record that stays registered leaves that status only in a heartbeat or
\* a registration of its name.
C33_HealthyOnlyFreshAndProbed ==
    /\ [](hcPc = "probe" => EntryAge(Head(snapshot)) <= heartbeat_timeout)
    /\ [][\A n \in RegisteredNames :
             (/\ WakeUp \/ CheckStep
              /\ RecordAfter(n).status = "healthy"
              /\ Record(n).status # "healthy")
                => /\ hcPc = "probe"
                   /\ Head(snapshot) = Entry(n)
                   /\ ProbeEnds("200")
                   /\ ~ProbeEnds("non200")]_vars
    /\ [][(/\ hcPc = "examine"
           /\ EntryAge(Head(snapshot)) > heartbeat_timeout
           /\ Examine)
             => /\ hcPc' # "probe"
                /\ \A n \in RegisteredNames : RecordAfter(n).status # "healthy"
                                                 \/ Record(n).status = "healthy"]_vars
    /\ [][\A n \in RegisteredNames :
             (/\ HeartbeatAge(n) > heartbeat_timeout
              /\ Record(n).status = "unhealthy"
              /\ n \in {services'[i][1] : i \in 1..Len(services')}
              /\ RecordAfter(n).status # "unhealthy")
                => \/ heartbeat(n)
                   \/ \E r \in DefaultRegistrations :
                         r.service_name = n /\ register_service(r)]_vars

\* after a cycle: the first record, whose heartbeat is older than the
\* timeout, is unhealthy, and the second, whose registration before the
\* cycle was the last request, was probed and is healthy
C33_Witness ==
    /\ hcPc = "sleep"
    /\ cycleStart > 0
    /\ Len(services) = 2
    /\ clock - fromisoformat(services[1][2].last_heartbeat) > heartbeat_timeout
    /\ services[1][2].status = "unhealthy"
    /\ services[2][2].status = "healthy"
    /\ services[2][2].last_heartbeat = services[2][2].registered_at
    /\ fromisoformat(services[2][2].registered_at) < cycleStart
    /\ fromisoformat(services[2][2].registered_at) > 0
    /\ regResponse.op = "register"
    /\ regResponse.name = services[2][1]

(***************************************************************************)
(* Replays (checked under SpecReplay).                                     *)
(***************************************************************************)
\* C34: nothing remembers what was accepted: a validly signed envelope
\* that is handed to receive_message again is enqueued again, every queued
\* copy is dispatched on its own, and the same header triple passes
\* verify_request on every request made while |now - t| <= 300.
C34_NoReplayProtection ==
    /\ [][\A m \in InboxEnvelopes :
             (/\ verify_message(shared_secret["web-search"], m) = "True"
              /\ Deliver("web-search", m))
             => /\ callResult'.result = "enqueued"
                /\ message_queue'["web-search"] =
                      Append(message_queue["web-search"],
                             [env |-> m, seq |-> arrivals + 1])]_vars
    /\ [][\A s \in Services :
             LoopGet(s) =>
                LET item == Head(message_queue[s])
                    t == message_type(item.env)
                IN  dispatched'[s] =
                       Append(dispatched[s],
                              [seq |-> item.seq,
                               handler |-> IF t \in DOMAIN message_handlers[s]
                                           THEN message_handlers[s][t]
                                           ELSE "none"])]_vars
    /\ [][start_session(KeptHeaders, "t", "s1") =>
             (response'.status = 200 <=> Abs(now - Now0) <= FreshnessWindow)]_vars

\* the first delivery of envelope 1 was dispatched and its second delivery
\* waits in the inbox; the header triple made at Now0 was accepted
\* FreshnessWindow seconds later
C34_Witness ==
    /\ dispatched["web-search"] = <<[seq |-> 1, handler |-> "handle_perform_search"]>>
    /\ Len(message_queue["web-search"]) = 1
    /\ message_queue["web-search"][1].seq = 2
    /\ message_queue["web-search"][1].env.id = 1
    /\ request.headers = KeptHeaders
    /\ request.at = Now0 + FreshnessWindow
    /\ response.status = 200

(***************************************************************************)
(* Progress of the dispatch loop (checked under SpecLive).                 *)
(***************************************************************************)
\* the arrival numbers of the messages in the inbox of s
Waiting(s) == {message_queue[s][i].seq : i \in 1..Len(message_queue[s])}

\* the arrival numbers of the messages the loop of s has taken
Taken(s) == {dispatched[s][i].seq : i \in 1..Len(dispatched[s])}

\* C35: while the loop of a service runs and every handler invocation
\* terminates, every accepted envelope is eventually dispatched: the loop
\* is never stopped by an unknown message type or a handler exception;
\* before the loop is started nothing leaves the inbox, and what waits
\* there is dispatched once the loop runs.
C35_AcceptedEventuallyDispatched ==
    /\ \A s \in Services : \A k \in 1..MaxMsgs :
          (k \in Waiting(s) /\ loop[s] # "idle") ~> (k \in Taken(s))
    /\ [](\A s \in Services : loop[s] # "stopped")
    /\ [](\A s \in Services : loop[s] = "idle" => Taken(s) = {})
    /\ [][\A s \in Services :
             loop[s] = "idle" => Waiting(s) \subseteq Waiting(s)']_vars
    /\ [][\A s \in Services :
             /\ Waiting(s) \subseteq Waiting(s)' \cup Taken(s)'
             /\ Taken(s) \subseteq Taken(s)']_vars

\* the handler of the first message raised, the second message had no
\* type, and the loop of the service waits for the next one
C35_Witness ==
    /\ main = "running"
    /\ dispatched["web-search"] = <<[seq |-> 1, handler |-> "handle_perform_search"],
                                    [seq |-> 2, handler |-> "none"]>>
    /\ outcomes["web-search"] = <<[seq |-> 1, outcome |-> "raised"]>>
    /\ message_queue["web-search"] = <<>>
    /\ loop["web-search"] = "get"

(***************************************************************************)
(* Each delivery is handled once (checked under Spec).                     *)
(***************************************************************************)
\* no element occurs twice in the sequence of arrival numbers
NoRepeat(q) == \A i, j \in 1..Len(q) : q[i].seq = q[j].seq => i = j

\* C36: an accepted envelope is taken from the inbox once and its handler
\* is invoked at most once per delivery: a message the loop took is never
\* in an inbox again, not after its handler raised and not after its
\* handler was cancelled, and no invocation ends twice.
C36_TakenOnce ==
    /\ [](\A s \in Services :
            /\ NoRepeat(dispatched[s])
            /\ NoRepeat(message_queue[s])
            /\ NoRepeat(outcomes[s])
            /\ Waiting(s) \cap Taken(s) = {}
            /\ {outcomes[s][i].seq : i \in 1..Len(outcomes[s])} \subseteq Taken(s))
    /\ [][\A s \in Services :
             /\ Waiting(s)' \ Waiting(s) \subseteq {arrivals + 1} \ Taken(s)
             /\ Takes(s) =>
                   /\ message_queue'[s] = Tail(message_queue[s])
                   /\ dispatched'[s][Len(dispatched'[s])].seq = Head(message_queue[s]).seq
             /\ (HandlerRaise(s) \/ CancelTask(s)) => message_queue' = message_queue]_vars

\* the handler of message 1 was interrupted by the cancellation and the
\* handler of message 2 raised: neither message is in an inbox, and each
\* was dispatched once
C36_Witness ==
    /\ dispatched["web-search"] = <<[seq |-> 1, handler |-> "handle_perform_search"]>>
    /\ outcomes["web-search"] = <<[seq |-> 1, outcome |-> "cancelled"]>>
    /\ loop["web-search"] = "stopped"
    /\ dispatched["web-research-aggregation"] =
          <<[seq |-> 2, handler |-> "handle_start_session"]>>
    /\ outcomes["web-research-aggregation"] = <<[seq |-> 2, outcome |-> "raised"]>>
    /\ \A s \in Services : message_queue[s] = <<>>

(***************************************************************************)
(* What receive_message looks at (checked under Spec).                     *)
(***************************************************************************)
\* the envelopes signed under the secret of s that a caller can hand to
\* receive_message of s: addressed to s or to the other service
SignedForAny(s) ==
    { Envelope(arrivals + 1, "web-search", rcp, pl, ts,
               sign_message(shared_secret[s],
                            Envelope(arrivals + 1, "web-search", rcp, pl, ts, NoneSig))) :
        rcp \in Services, pl \in Payloads, ts \in Times }

\* C40: receive_message decides on the signature alone: every envelope in
\* an inbox verifies under the secret of the service, and a validly signed
\* envelope is enqueued whatever its sender and recipient are, also when
\* the recipient is another service; an envelope that send_message
\* delivered has the receiving service as recipient and the sending
\* service as sender.
C40_SignatureAloneDecides ==
    /\ [](\A s \in Services : \A i \in 1..Len(message_queue[s]) :
            verify_message(shared_secret[s], message_queue[s][i].env) = "True")
    /\ [][(/\ callResult'.op = "receive_message"
           /\ callResult' # callResult \/ arrivals' # arrivals)
             => \A s \in Services : \A m \in SignedForAny(s) :
                   Deliver(s, m) =>
                      /\ callResult'.result = "enqueued"
                      /\ message_queue'[s] =
                            Append(message_queue[s], [env |-> m, seq |-> arrivals + 1])]_vars
    /\ [][(callResult'.op = "send_message" /\ arrivals' = arrivals + 1)
             => \A b \in Services :
                   Len(message_queue'[b]) > Len(message_queue[b]) =>
                      LET m == message_queue'[b][Len(message_queue'[b])].env
                      IN  /\ m.recipient = b
                          /\ \E a \in Services, pl \in Payloads, ts \in Times :
                                Send(a, b, pl, ts) /\ m.sender = a]_vars

\* the aggregation service holds an envelope whose recipient and sender
\* are both the search service, given to its receive_message directly
C40_Witness ==
    /\ callResult = [op |-> "receive_message", result |-> "enqueued"]
    /\ Len(message_queue["web-research-aggregation"]) = 1
    /\ message_queue["web-research-aggregation"][1].env.recipient = "web-search"
    /\ message_queue["web-research-aggregation"][1].env.sender = "web-search"
    /\ message_queue["web-research-aggregation"][1].seq = arrivals

(***************************************************************************)
(* Probes that end after their record left the dict (checked under         *)
(* SpecHealth).                                                            *)
(***************************************************************************)
\* C37: the loop's step for a record that was deregistered or registered
\* again since the cycle started, the end of its probe included, changes
\* nothing in the registry: a deregistered name stays absent and a name
\* registered again keeps the record of its new registration.
C37_LateProbeChangesNothing ==
    /\ [][\A o \in ProbeOutcomes \cup {"timeout"} :
             (/\ hcPc = "probe"
              /\ ~Head(snapshot).attached
              /\ IF o = "timeout" THEN ProbeTimeout ELSE ProbeEnds(o))
                => services' = services]_vars
    /\ [][\A n \in RegNames :
             (unregister_service(n) \/ \E r \in DefaultRegistrations :
                                          r.service_name = n /\ register_service(r))
                => \A i \in 1..Len(snapshot') :
                      snapshot'[i].name = n => ~snapshot'[i].attached]_vars
    /\ [](\A i \in 1..Len(snapshot) :
            snapshot[i].attached => snapshot[i].name \in RegisteredNames)

\* the first name was registered again while the first cycle's probe of it
\* was in flight; the probe has ended, the loop is at the second entry, and
\* the first name has the unknown status of its new record
C37_Witness ==
    /\ hcPc = "examine"
    /\ cycleStart = HealthCheckInterval
    /\ clock = cycleStart
    /\ Len(services) = 2
    /\ snapshot = <<Entry(services[2][1])>>
    /\ services[1][2].registered_at = isoformat(cycleStart)
    /\ services[1][2].status = "unknown"
    /\ fromisoformat(services[2][2].registered_at) < cycleStart

====
